---- MODULE Spec2Model ----
(***************************************************************************)
(* The reactive dataflow engine of zyl9737/reaction: the ObserverGraph     *)
(* singleton (m_dependents, m_observers, m_repeatDependencies), the        *)
(* per-node ordered observer list and wait set of ObserverBase, the        *)
(* Expression closure with its stored value, and the propagation pulse     *)
(* started by a write to a source cell.                                    *)
(***************************************************************************)
EXTENDS Integers, Sequences, FiniteSets, TLC

\* The cells a run may construct: one var() cell, two calc() cells and one action().
Sources == {"a"}
Computed == {"A", "B", "C"}
Cells == Sources \cup Computed
\* Computed cells are constructed in this order (identities are interchangeable).
CreateOrder == <<"A", "B", "C">>
\* The cells constructed by action() (void closure); the others by calc().
Actions == {"C"}

\* Longest argument list / number of handle reads of one closure.
MaxArgs == 2
\* Stored values are the integers 0 .. ValMod-1.
ValMod == 2
\* Number of rebinds (set calls) in one run.
MaxSets == 1
\* Rebinds, and reads of a rebound closure, in the runs of SpecRebind.
MaxRebinds == 3
MaxRebindArgs == 1
MaxResets == 1

Val == 0 .. (ValMod - 1)
NoVal == -1

\* The handle variables of a program: the handle each factory call returned
\* (named like its cell) and the spare handle variables of Spare.
Spare == {"h"}
Slots == Cells \cup Spare

VARIABLES
    kind,                   \* cell -> "free" | "var" | "field" | "calc" | "action"
    alive,                  \* the cells whose object exists (React::operator bool)
    m_dependents,           \* ObserverGraph::m_dependents  (map: key -> set)
    m_observers,            \* ObserverGraph::m_observers   (map: key -> set)
    m_repeatDependencies,   \* ObserverGraph::m_repeatDependencies
    obList,                 \* ObserverBase::m_observers (ordered vector) per cell
    waitObservers,          \* ObserverBase::m_waitObservers per cell
    value,                  \* ResourceBase::m_ptr per cell (NoVal: null)
    m_fun,                  \* Expression::m_fun per cell: the cells the closure reads
    g_wait_list,            \* the thread_local deferred-visit set
    hnd,                    \* React::m_weakPtr per handle variable: a cell,
                            \* "empty" (reset by a move) or "absent" (no such object)
    m_weakRefCount,         \* ReactImpl::m_weakRefCount per cell
    strategy,               \* the InvalidStrategy type parameter per cell
    policy,                 \* the TriggerPolicy type parameter per cell
    m_changed,              \* ValueChangeTrigger::m_changed per cell
    m_thresholdFun,         \* ThresholdTrigger::m_thresholdFun per cell
    invalidated,            \* history: handleInvalid executions per cell
    former,                 \* history: the dependents the last recorded rebind dropped
    visits,                 \* history: the visits of the last write, in order
    closed,                 \* history: the cells a close has reached
    nSets,                  \* rebinds made so far
    last,                   \* the public call that produced this state
    log                     \* closure invocations of the last write, in order

vars == <<kind, alive, m_dependents, m_observers, m_repeatDependencies, obList,
          waitObservers, value, m_fun, g_wait_list, hnd, m_weakRefCount, strategy,
          policy, m_changed, m_thresholdFun, invalidated, former, visits, closed,
          nSets, last, log>>

-----------------------------------------------------------------------------
(* std::unordered_map with operator[] (creates the key), find and erase.   *)

Get(m, k) == IF k \in DOMAIN m THEN m[k] ELSE {}
Put(m, k, v) == [x \in (DOMAIN m) \cup {k} |-> IF x = k THEN v ELSE m[x]]
Touch(m, k) == IF k \in DOMAIN m THEN m ELSE Put(m, k, {})
TouchAll(m, ks) == [x \in (DOMAIN m) \cup ks |-> IF x \in DOMAIN m THEN m[x] ELSE {}]
Erase(m, k) == [x \in (DOMAIN m) \ {k} |-> m[x]]

EmptyMap == [x \in {} |-> {}]

\* std::remove + erase on the observer vector: drops every occurrence.
RECURSIVE RemoveAll(_, _)
RemoveAll(s, x) ==
    IF s = <<>> THEN <<>>
    ELSE IF Head(s) = x THEN RemoveAll(Tail(s), x)
    ELSE <<Head(s)>> \o RemoveAll(Tail(s), x)

Range(s) == {s[i] : i \in DOMAIN s}

\* Iteration orders of the unordered containers: every ranking of the cells.
Orders == {f \in [Cells -> 1 .. Cardinality(Cells)] :
              \A x, y \in Cells : x # y => f[x] # f[y]}

\* The elements of S in the iteration order ord.
RECURSIVE SetToSeq(_, _)
SetToSeq(S, ord) ==
    IF S = {} THEN <<>>
    ELSE LET m == CHOOSE x \in S : \A y \in S : ord[x] <= ord[y]
         IN  <<m>> \o SetToSeq(S \ {m}, ord)

IsData(k, c) == k[c] \in {"var", "field", "calc"}

-----------------------------------------------------------------------------
(* The graph as one record, threaded through the ObserverGraph methods.    *)

Graph(d, o, r, ol, wt) == [deps |-> d, obs |-> o, rep |-> r, ol |-> ol, wt |-> wt]

\* ObserverGraph::addNode
addNode(g, n) == [g EXCEPT !.deps = Touch(g.deps, n), !.obs = Touch(g.obs, n)]

\* ObserverGraph::cleanupDependencies
cleanupDependencies(g, n) ==
    LET D == Get(g.deps, n)
    IN  [g EXCEPT
           !.deps = Touch(g.deps, n),
           !.obs  = [k \in (DOMAIN g.obs) \cup D |->
                        IF k \in D THEN Get(g.obs, k) \ {n} ELSE g.obs[k]],
           !.ol   = [c \in Cells |->
                        IF c \in D /\ n \in Get(g.obs, c)
                        THEN RemoveAll(g.ol[c], n) ELSE g.ol[c]]]

\* The deleteWait loop shared by resetNode and closeNodeInternal.
dropRepeat(g, n) ==
    IF n \in DOMAIN g.rep
    THEN [g EXCEPT
            !.wt  = [c \in Cells |-> IF c \in g.rep[n] THEN g.wt[c] \ {n} ELSE g.wt[c]],
            !.rep = Erase(g.rep, n)]
    ELSE g

\* ObserverGraph::resetNode
resetNode(g, n) ==
    LET g1 == cleanupDependencies(g, n)
        g2 == [g1 EXCEPT !.deps = Put(g1.deps, n, {})]
    IN  dropRepeat(g2, n)

-----------------------------------------------------------------------------
(* Cycle check and repeat-dependency detection.                            *)

\* An iteration order for the traversals whose result does not depend on it.
AnyOrder == CHOOSE f \in Orders : TRUE

\* ObserverGraph::dfs: [r: a back edge was met, visited: the nodes entered].
RECURSIVE dfs(_, _, _, _), dfsLoop(_, _, _, _, _)
dfs(deps, node, visited, recursionStack) ==
    IF node \in recursionStack THEN [r |-> TRUE, visited |-> visited]
    ELSE IF node \in visited THEN [r |-> FALSE, visited |-> visited]
    ELSE dfsLoop(deps, SetToSeq(Get(deps, node), AnyOrder), 1,
                 visited \cup {node}, recursionStack \cup {node})
dfsLoop(deps, nbrs, i, visited, recursionStack) ==
    IF i > Len(nbrs) THEN [r |-> FALSE, visited |-> visited]
    ELSE LET res == dfs(deps, nbrs[i], visited, recursionStack)
         IN  IF res.r THEN res
             ELSE dfsLoop(deps, nbrs, i + 1, res.visited, recursionStack)

\* hasCycle that stages and unstages the edge and never searches.
hasCycleUnsearched(g, source, target) ==
    [r |-> FALSE,
     g |-> [g EXCEPT
              !.deps = Put(g.deps, source, Get(g.deps, source) \ {target}),
              !.obs  = Put(g.obs, target, Get(g.obs, target) \ {source})]]

\* ObserverGraph::hasCycle: stage the edge, search, unstage (the erase also
\* drops an edge source -> target that was there before the call).
hasCycle(g, source, target) ==
    LET staged == Put(g.deps, source, Get(g.deps, source) \cup {target})
        res    == dfs(staged, source, {}, {})
        deps1  == TouchAll(staged, res.visited)
    IN  [r |-> res.r,
         g |-> [g EXCEPT
                  !.deps = Put(deps1, source, deps1[source] \ {target}),
                  !.obs  = Put(g.obs, target, Get(g.obs, target) \ {source})]]

\* ObserverGraph::collectDependencies
RECURSIVE collectDependencies(_, _, _), collectLoop(_, _, _, _)
collectDependencies(deps, node, dependencies) ==
    IF node \in dependencies THEN dependencies
    ELSE collectLoop(deps, SetToSeq(Get(deps, node), AnyOrder), 1,
                     dependencies \cup {node})
collectLoop(deps, nbrs, i, dependencies) ==
    IF i > Len(nbrs) THEN dependencies
    ELSE collectLoop(deps, nbrs, i + 1,
                     collectDependencies(deps, nbrs[i], dependencies))

\* ObserverGraph::checkDependency: depth-first from node, in iteration order
\* ord; hit is the first node met that the target depends on ("" when none).
RECURSIVE checkDependency(_, _, _, _, _), checkLoop(_, _, _, _, _, _)
checkDependency(deps, node, targetDependencies, visited, ord) ==
    IF node \in visited THEN [hit |-> "", visited |-> visited]
    ELSE IF node \in targetDependencies
         THEN [hit |-> node, visited |-> visited \cup {node}]
    ELSE checkLoop(deps, SetToSeq(Get(deps, node), ord), 1, targetDependencies,
                   visited \cup {node}, ord)
checkLoop(deps, nbrs, i, targetDependencies, visited, ord) ==
    IF i > Len(nbrs) THEN [hit |-> "", visited |-> visited]
    ELSE LET res == checkDependency(deps, nbrs[i], targetDependencies, visited, ord)
         IN  IF res.hit # "" THEN res
             ELSE checkLoop(deps, nbrs, i + 1, targetDependencies, res.visited, ord)

\* ObserverGraph::hasRepeatDependencies: registers source in the wait set of
\* the first common dependency found, if there is one.
hasRepeatDependencies(g, source, target, ord) ==
    LET targetDependencies == collectDependencies(g.deps, target, {})
        res   == checkLoop(g.deps, SetToSeq(Get(g.deps, source), ord), 1,
                           targetDependencies, {}, ord)
        deps1 == TouchAll(g.deps, targetDependencies \cup res.visited \cup {source})
    IN  IF res.hit = "" THEN [g EXCEPT !.deps = deps1]
        ELSE [g EXCEPT
                !.deps = deps1,
                !.rep  = Put(g.rep, source, Get(g.rep, source) \cup {res.hit}),
                !.wt   = [g.wt EXCEPT ![res.hit] = @ \cup {source}]]

\* addOb that puts the observer in front of the vector.
insertEdgeInFront(g, source, target) ==
    [ok |-> TRUE,
     g  |-> [g EXCEPT
               !.deps = Put(g.deps, source, Get(g.deps, source) \cup {target}),
               !.obs  = Put(g.obs, target, Get(g.obs, target) \cup {source}),
               !.ol   = [g.ol EXCEPT ![target] = <<source>> \o @]]]

\* ObserverGraph::addObserver, after both checks passed: the edge is inserted
\* and target->addOb(source) appends to the observer vector.
insertEdge(g, source, target) ==
    [ok |-> TRUE,
     g  |-> [g EXCEPT
               !.deps = Put(g.deps, source, Get(g.deps, source) \cup {target}),
               !.obs  = Put(g.obs, target, Get(g.obs, target) \cup {source}),
               !.ol   = [g.ol EXCEPT ![target] = Append(@, source)]]]

\* ObserverGraph::addObserver, from the cycle check's result cyc on.
afterCycleCheck(cyc, source, target, ord) ==
    IF cyc.r THEN [ok |-> FALSE, g |-> cyc.g]
    ELSE insertEdge(hasRepeatDependencies(cyc.g, source, target, ord), source, target)

\* ObserverGraph::addObserver: [ok, g].
addObserver(g, k, source, target, ord) ==
    IF IsData(k, source) /\ source = target THEN [ok |-> FALSE, g |-> g]
    ELSE IF IsData(k, source)
         THEN afterCycleCheck(hasCycle(g, source, target), source, target, ord)
    ELSE afterCycleCheck([r |-> FALSE, g |-> g], source, target, ord)

\* The fold of addObserver over the argument pack, stopping at the first failure.
RECURSIVE addAll(_, _, _, _, _, _), addRest(_, _, _, _, _, _)
addAll(g, k, source, ts, i, ord) ==
    IF i > Len(ts) THEN [ok |-> TRUE, g |-> g]
    ELSE addRest(addObserver(g, k, source, ts[i], ord), k, source, ts, i, ord)
addRest(r, k, source, ts, i, ord) ==
    IF r.ok THEN addAll(r.g, k, source, ts, i + 1, ord) ELSE r

\* updateObservers returning false without the second resetNode.
rollbackForgotten(r, source) == r

\* ObserverBase::updateObservers, the failure branch: resetNode again.
rollback(r, source) ==
    IF r.ok THEN r ELSE [ok |-> FALSE, g |-> resetNode(r.g, source)]

\* ObserverBase::updateObservers (args-style bind): [ok, g].
updateObservers(g, k, source, ts, ord) ==
    rollback(addAll(resetNode(g, source), k, source, ts, 1, ord), source)

\* ObserverBase::updateOneObserver, once per handle read of a capture-style
\* closure during its first evaluation; the result of addObserver is dropped.
RECURSIVE updateEachObserver(_, _, _, _, _, _)
updateEachObserver(g, k, source, ts, i, ord) ==
    IF i > Len(ts) THEN g
    ELSE updateEachObserver(addObserver(g, k, source, ts[i], ord).g, k, source,
                            ts, i + 1, ord)

-----------------------------------------------------------------------------
(* Cascade close.                                                          *)

\* closeNodeInternal without the deleteWait loop.
closeNodeInternalKeepingWait(g, k, n) ==
    LET g1 == cleanupDependencies(g, n)
        d2 == Erase(g1.deps, n)
        O  == IF IsData(k, n) THEN Get(g1.obs, n) ELSE {}
        d3 == [x \in (DOMAIN d2) \cup O |->
                  IF x \in O THEN Get(d2, x) \ {n} ELSE d2[x]]
    IN  [g1 EXCEPT !.deps = d3, !.obs = Erase(g1.obs, n)]

\* ObserverGraph::closeNodeInternal
closeNodeInternal(g, k, n) ==
    LET g1 == cleanupDependencies(g, n)
        d2 == Erase(g1.deps, n)
        O  == IF IsData(k, n) THEN Get(g1.obs, n) ELSE {}
        d3 == [x \in (DOMAIN d2) \cup O |->
                  IF x \in O THEN Get(d2, x) \ {n} ELSE d2[x]]
        g2 == [g1 EXCEPT !.deps = d3, !.obs = Erase(g1.obs, n)]
    IN  dropRepeat(g2, n)

\* ObserverGraph::cascadeCloseDependents: [g, closedNodes].
RECURSIVE cascadeCloseDependents(_, _, _, _, _), cascadeLoop(_, _, _, _, _, _)
cascadeCloseDependents(g, k, node, closedNodes, ord) ==
    IF node \in closedNodes THEN [g |-> g, closedNodes |-> closedNodes]
    ELSE LET observers == Get(g.obs, node)
             r == cascadeLoop([g EXCEPT !.obs = Touch(g.obs, node)], k,
                              SetToSeq(observers, ord), 1,
                              closedNodes \cup {node}, ord)
         IN  [g |-> closeNodeInternal(r.g, k, node), closedNodes |-> r.closedNodes]
cascadeLoop(g, k, obs, i, closedNodes, ord) ==
    IF i > Len(obs) THEN [g |-> g, closedNodes |-> closedNodes]
    ELSE LET r == cascadeCloseDependents(g, k, obs[i], closedNodes, ord)
         IN  cascadeLoop(r.g, k, obs, i + 1, r.closedNodes, ord)

\* ObserverGraph::closeNode
closeNode(g, k, node, ord) == cascadeCloseDependents(g, k, node, {}, ord).g

-----------------------------------------------------------------------------
(* Object lifetime: a node object lives while some shared_ptr to it is     *)
(* held: by a key or an element of the graph's maps, by g_wait_list, or by *)
(* the observer vector or wait set of a living node. A handle (weak_ptr)   *)
(* converts to true exactly for a living object.                           *)

MapRefs(m) == (DOMAIN m) \cup UNION {m[x] : x \in DOMAIN m}

RootRefs(g, gw) == MapRefs(g.deps) \cup MapRefs(g.obs) \cup MapRefs(g.rep) \cup gw

\* The aggregates (FieldBase objects) of the runs, named by the UniqueID m_id
\* their field() calls register under, and the cell each one's field() made.
Aggregates == {"person", "person2"}

m_id(c) == IF c = "a" THEN "person" ELSE "person2"

\* FieldGraph::m_fieldMap: the cells FieldBase::field made, by aggregate id;
\* deleteObj is never called, so the map keeps them for the whole run.
fieldMap(k) == [id \in Aggregates |-> {c \in Cells : k[c] = "field" /\ m_id(c) = id}]

RECURSIVE Survivors(_, _, _, _)
Survivors(roots, ol, wt, S) ==
    LET S1 == {c \in S : \/ c \in roots
                         \/ \E x \in S : c \in Range(ol[x]) \cup wt[x]}
    IN  IF S1 = S THEN S ELSE Survivors(roots, ol, wt, S1)

\* The objects that exist once every unowned one has been destroyed.
Existing(g, gw, k) ==
    LET made  == {c \in Cells : k[c] # "free"}
        roots == RootRefs(g, gw) \cup UNION Range(fieldMap(k))
    IN  IF made \subseteq roots THEN made ELSE Survivors(roots, g.ol, g.wt, made)

Created == {c \in Cells : kind[c] # "free"}

TheGraph == Graph(m_dependents, m_observers, m_repeatDependencies, obList, waitObservers)

-----------------------------------------------------------------------------
(* Closures and the propagation pulse.                                     *)

NoFun == [reads |-> <<>>]

RECURSIVE SumVals(_, _)
SumVals(reads, val) ==
    IF reads = <<>> THEN 0 ELSE val[Head(reads)] + SumVals(Tail(reads), val)

\* Expression::evaluate: the closures of the model add one to the sum of the
\* values they read; the closure LastValStrategy installs returns the value
\* it captured; the closures of TestRepeatDependency2 add their own constant
\* to the sum.
evaluate(f, val) ==
    IF "const" \in DOMAIN f THEN f.const
    ELSE IF "plus" \in DOMAIN f THEN SumVals(f.reads, val) + f.plus
    ELSE (1 + SumVals(f.reads, val)) % ValMod

\* The default m_thresholdFun returns true; the predicates of the model hold
\* when the sum of the values they read is a multiple of ValMod.
NoThreshold == [set |-> FALSE, reads |-> <<>>]

ThresholdHolds(t, val) == (~t.set) \/ SumVals(t.reads, val) % ValMod = 0

\* The pulse state: stored values, g_wait_list, m_changed, the invocation log,
\* the visit log, the notifier of the visit under way, and err once a closure
\* has thrown (the exception leaves every enclosing loop).
\* ctx: the parts of the state a pulse reads and never writes.
RECURSIVE valueChanged(_, _, _, _), triggered(_, _, _, _), invoke(_, _, _),
          notifyObservers(_, _, _, _), mainLoop(_, _, _, _, _, _),
          waitLoop(_, _, _, _, _, _), waitNext(_, _, _, _, _, _)

\* A visit of x: who notified and from which of its two loops, the hint,
\* whether the closure ran, and the number of invocations made before the
\* visit.
Visit(x, changed, ran, st) ==
    [c |-> x, by |-> st.by, loop |-> st.loop, changed |-> changed, ran |-> ran,
     at |-> Len(st.log)]

\* TriggerPolicy::checkTrigger
checkTrigger(x, st, ctx) ==
    IF ctx.policy[x] = "ChangedTrigger" THEN st.chg[x]
    ELSE IF ctx.policy[x] = "ThresholdTrigger" THEN ThresholdHolds(ctx.thr[x], st.val)
    ELSE TRUE

\* ObserverBase::valueChanged, which a simple expression would inherit: the
\* notification stops at the cell.
valueChangedInherited(x, changed, st, ctx) ==
    IF st.err \/ ctx.k[x] \in {"var", "field"} THEN st
    ELSE triggered(x, changed,
                   IF ctx.policy[x] = "ChangedTrigger"
                   THEN [st EXCEPT !.chg[x] = changed] ELSE st,
                   ctx)

\* Expression::valueChanged: a simple expression (a var cell, notified by a
\* field it wraps) passes the notification on with changed = true; a closure
\* cell calls setChanged if it is a ChangedTrigger cell.
valueChanged(x, changed, st, ctx) ==
    IF st.err THEN st
    ELSE IF ctx.k[x] \in {"var", "field"}
         THEN notifyObservers(x, TRUE,
                              [st EXCEPT !.vis = Append(@, Visit(x, changed, TRUE, st))],
                              ctx)
    ELSE triggered(x, changed,
                   IF ctx.policy[x] = "ChangedTrigger"
                   THEN [st EXCEPT !.chg[x] = changed] ELSE st,
                   ctx)

\* Expression::valueChanged: the closure runs if checkTrigger allows it.
triggered(x, changed, st, ctx) ==
    IF ctx.policy[x] = "ThresholdTrigger"
       /\ \E r \in Range(ctx.thr[x].reads) : r \notin ctx.alive
    THEN [st EXCEPT !.err = TRUE]
    ELSE IF checkTrigger(x, st, ctx)
         THEN invoke(x, [st EXCEPT !.vis = Append(@, Visit(x, changed, TRUE, st))], ctx)
    ELSE [st EXCEPT !.vis = Append(@, Visit(x, changed, FALSE, st))]

\* The triggered branch notifying with changed = true whatever the values.
invokeAlwaysChanged(x, st, ctx) ==
    IF \E r \in Range(ctx.fun[x].reads) : r \notin ctx.alive
    THEN [st EXCEPT !.err = TRUE]
    ELSE IF ctx.k[x] = "calc"
         THEN LET oldVal == st.val[x]
                  newVal == evaluate(ctx.fun[x], st.val)
                  st1 == [st EXCEPT !.val[x] = newVal,
                                    !.log = Append(@, [c |-> x, old |-> oldVal, new |-> newVal])]
              IN  notifyObservers(x, TRUE, st1, ctx)
    ELSE [st EXCEPT !.log = Append(@, [c |-> x, old |-> NoVal, new |-> NoVal])]

\* Expression::valueChanged, the triggered branch: evaluate, updateValue and
\* notifyObservers(oldVal != newVal) for a data cell, evaluate for an action.
invoke(x, st, ctx) ==
    IF \E r \in Range(ctx.fun[x].reads) : r \notin ctx.alive
    THEN [st EXCEPT !.err = TRUE]
    ELSE IF ctx.k[x] = "calc"
         THEN LET oldVal == st.val[x]
                  newVal == evaluate(ctx.fun[x], st.val)
                  st1 == [st EXCEPT !.val[x] = newVal,
                                    !.log = Append(@, [c |-> x, old |-> oldVal, new |-> newVal])]
              IN  notifyObservers(x, oldVal # newVal, st1, ctx)
    ELSE [st EXCEPT !.log = Append(@, [c |-> x, old |-> NoVal, new |-> NoVal])]

\* notifyObservers that does not put the wait set into g_wait_list.
notifyObserversUndeferred(n, changed, st, ctx) ==
    LET st2 == mainLoop(n, ctx.ol[n], 1, changed, st, ctx)
    IN  waitLoop(n, SetToSeq(ctx.wt[n], ctx.ord), 1, changed, st2, ctx)

\* ObserverBase::notifyObservers
notifyObservers(n, changed, st, ctx) ==
    LET st1 == [st EXCEPT !.gw = @ \cup ctx.wt[n]]
        st2 == mainLoop(n, ctx.ol[n], 1, changed, st1, ctx)
    IN  waitLoop(n, SetToSeq(ctx.wt[n], ctx.ord), 1, changed, st2, ctx)

mainLoop(n, obs, i, changed, st, ctx) ==
    IF i > Len(obs) \/ st.err THEN st
    ELSE mainLoop(n, obs, i + 1, changed,
                  IF obs[i] \notin st.gw
                  THEN valueChanged(obs[i], changed,
                                    [st EXCEPT !.by = n, !.loop = "main"], ctx)
                  ELSE st,
                  ctx)

waitLoop(n, ws, i, changed, st, ctx) ==
    IF i > Len(ws) \/ st.err THEN st
    ELSE waitNext(n, ws, i, changed,
                  valueChanged(ws[i], changed,
                               [st EXCEPT !.by = n, !.loop = "wait"], ctx), ctx)

\* The wait loop once ws[i] has returned: g_wait_list.erase, next observer.
waitNext(n, ws, i, changed, st, ctx) ==
    waitLoop(n, ws, i + 1, changed,
             IF st.err THEN st ELSE [st EXCEPT !.gw = @ \ {ws[i]}], ctx)

-----------------------------------------------------------------------------
(* Binding a closure.                                                      *)

\* setSource that stores the closure without evaluating it.
boundUnevaluated(g, k, x, f, val, fun) ==
    [ret |-> "NoErr", g |-> g, fun |-> [fun EXCEPT ![x] = f], val |-> val,
     log |-> <<>>]

\* setSource that, after storing the result, has the computed cells observing
\* x store the results of their closures too.
boundNotifying(g, k, x, f, val, fun) ==
    LET v1 == IF k[x] = "calc" THEN [val EXCEPT ![x] = evaluate(f, val)] ELSE val
    IN  [ret |-> "NoErr", g |-> g,
         fun |-> [fun EXCEPT ![x] = f],
         val |-> [c \in Cells |->
                    IF c # x /\ k[c] = "calc" /\ c \in Range(g.ol[x]) \cup g.wt[x]
                    THEN evaluate(fun[c], v1) ELSE v1[c]],
         log |-> <<[c |-> x, old |-> NoVal,
                    new |-> IF k[x] = "calc" THEN evaluate(f, val) ELSE NoVal]>>]

\* Expression::setSource after a successful updateObservers: setFunctor, then
\* evaluate (a data cell stores the result). The invocation is
\* logged with no old value, as none is read.
bound(g, k, x, f, val, fun) ==
    [ret |-> "NoErr", g |-> g,
     fun |-> [fun EXCEPT ![x] = f],
     val |-> IF k[x] = "calc" THEN [val EXCEPT ![x] = evaluate(f, val)] ELSE val,
     log |-> <<[c |-> x, old |-> NoVal,
                new |-> IF k[x] = "calc" THEN evaluate(f, val) ELSE NoVal]>>]

\* setSource that does not look at the result of updateObservers.
afterUpdateUnchecked(r, k, x, f, val, fun) == bound(r.g, k, x, f, val, fun)

\* Expression::setSource, from the result r of updateObservers on.
afterUpdate(r, k, x, f, val, fun) ==
    IF r.ok THEN bound(r.g, k, x, f, val, fun)
    ELSE [ret |-> "CycleDepErr", g |-> r.g, val |-> val, fun |-> fun, log |-> <<>>]

\* Expression::setSource with an argument pack (args-style bind).
setSource(g, k, x, ts, val, fun, ord) ==
    afterUpdate(updateObservers(g, k, x, ts, ord), k, x, [reads |-> ts], val, fun)

\* ReactImpl::set(InvocableType): setSource with an empty pack under a
\* RegGuard; every handle read of the first evaluation calls updateOneOb.
setCapture(g, k, x, ts, val, fun, ord) ==
    bound(updateEachObserver(resetNode(g, x), k, x, ts, 1, ord),
          k, x, [reads |-> ts], val, fun)

\* ReactImpl::set: the overload is chosen by the presence of arguments.
set(g, k, x, style, ts, val, fun, ord) ==
    IF style = "args" THEN setSource(g, k, x, ts, val, fun, ord)
    ELSE setCapture(g, k, x, ts, val, fun, ord)

\* The argument lists / read sequences over the handles in T.
ArgLists(T) == UNION {[1 .. n -> T] : n \in 0 .. MaxArgs}

Styles(ts) == IF Len(ts) = 0 THEN {"capt"} ELSE {"args", "capt"}

\* The iteration orders that can make a difference to a call: the sets a bind
\* iterates are dependents sets, the sets a pulse or a close iterates hold
\* observers (computed cells) only.
ObserverOrders == {f \in Orders : \A s \in Sources, c \in Computed : f[c] < f[s]}

\* checkDependency iterates the dependents of the cells the earlier arguments
\* reach, and the source's own dependents from the third argument on.
BindOrders(ts) ==
    IF Len(ts) > 2
       \/ /\ Len(ts) = 2
          /\ \E c \in collectDependencies(m_dependents, ts[1], {}) :
                Cardinality(Get(m_dependents, c)) > 1
    THEN Orders ELSE {AnyOrder}

\* A pulse iterates the wait sets of the cells it notifies, a close the
\* observer sets of the cells it closes.
PulseOrders ==
    IF \E c \in Cells : Cardinality(waitObservers[c]) > 1
    THEN ObserverOrders ELSE {AnyOrder}

CloseOrders ==
    IF \E c \in DOMAIN m_observers : Cardinality(m_observers[c]) > 1
    THEN ObserverOrders ELSE {AnyOrder}

-----------------------------------------------------------------------------
(* The public calls.                                                       *)

\* The handle, trigger and history parts of the state as one record.
Rest(hn, cnt, chg, thr, inv, fm, vis) ==
    [hnd |-> hn, cnt |-> cnt, chg |-> chg, thr |-> thr, inv |-> inv,
     former |-> fm, vis |-> vis]

\* The rest of the state after a call that touches no handle and no trigger;
\* a factory call returns the one handle of the cell it made (React(ptr)
\* calls addWeakRef).
Same(k) ==
    Rest([s \in Slots |-> IF s \in Cells /\ kind[s] = "free" /\ k[s] # "free"
                          THEN s ELSE hnd[s]],
         [c \in Cells |-> IF kind[c] = "free" /\ k[c] # "free" THEN 1
                          ELSE m_weakRefCount[c]],
         m_changed, m_thresholdFun, invalidated, former, <<>>)

\* The state after a call: objects without owner are destroyed.
CommitAll(k, g, val, fun, gw, cl, ns, l, lg, e) ==
    LET al == Existing(g, gw, k)
    IN  /\ kind' = k
        /\ alive' = al
        /\ m_dependents' = g.deps
        /\ m_observers' = g.obs
        /\ m_repeatDependencies' = g.rep
        /\ obList' = [c \in Cells |-> IF c \in al THEN g.ol[c] ELSE <<>>]
        /\ waitObservers' = [c \in Cells |-> IF c \in al THEN g.wt[c] ELSE {}]
        /\ value' = [c \in Cells |-> IF c \in al THEN val[c] ELSE NoVal]
        /\ m_fun' = [c \in Cells |-> IF c \in al THEN fun[c] ELSE NoFun]
        /\ g_wait_list' = gw
        /\ hnd' = e.hnd
        /\ m_weakRefCount' = [c \in Cells |-> IF c \in al THEN e.cnt[c] ELSE 0]
        /\ m_changed' = [c \in Cells |-> IF c \in al THEN e.chg[c] ELSE TRUE]
        /\ m_thresholdFun' = [c \in Cells |-> IF c \in al THEN e.thr[c] ELSE NoThreshold]
        /\ invalidated' = e.inv
        /\ former' = e.former
        /\ visits' = e.vis
        /\ UNCHANGED <<strategy, policy>>
        /\ closed' = cl
        /\ nSets' = ns
        /\ last' = l
        /\ log' = lg

Commit(k, g, val, fun, gw, cl, ns, l, lg) ==
    CommitAll(k, g, val, fun, gw, cl, ns, l, lg, Same(k))

Call(op, x, style, ts, ret) ==
    [op |-> op, x |-> x, style |-> style, ts |-> ts, ret |-> ret]

\* No handle exists yet.
NoHandles ==
    /\ hnd = [s \in Slots |-> "absent"]
    /\ m_weakRefCount = [c \in Cells |-> 0]

\* The default template arguments of the factories (AlwaysTrigger,
\* DirectCloseStrategy), no threshold set, and empty histories.
Defaults ==
    /\ strategy = [c \in Cells |-> "DirectCloseStrategy"]
    /\ policy = [c \in Cells |-> "AlwaysTrigger"]
    /\ m_changed = [c \in Cells |-> TRUE]
    /\ m_thresholdFun = [c \in Cells |-> NoThreshold]
    /\ invalidated = [c \in Cells |-> 0]
    /\ former = {}
    /\ visits = <<>>

Init ==
    /\ kind = [c \in Cells |-> "free"]
    /\ alive = {}
    /\ m_dependents = EmptyMap
    /\ m_observers = EmptyMap
    /\ m_repeatDependencies = EmptyMap
    /\ obList = [c \in Cells |-> <<>>]
    /\ waitObservers = [c \in Cells |-> {}]
    /\ value = [c \in Cells |-> NoVal]
    /\ m_fun = [c \in Cells |-> NoFun]
    /\ g_wait_list = {}
    /\ NoHandles
    /\ Defaults
    /\ closed = {}
    /\ nSets = 0
    /\ last = Call("init", "", "-", <<>>, "-")
    /\ log = <<>>

\* The cells a caller holds a valid handle to.
Held == {c \in alive : \E s \in Slots : hnd[s] = c}

\* The data cells a caller holds a valid handle to.
Targets == {c \in Held : IsData(kind, c)}

\* reaction::var
Var ==
    \E s \in Sources, v \in Val :
        /\ kind[s] = "free"
        /\ Commit([kind EXCEPT ![s] = "var"], addNode(TheGraph, s),
                  [value EXCEPT ![s] = v], m_fun, g_wait_list, closed, nSets,
                  Call("var", s, "-", <<>>, "-"), <<>>)

\* reaction::calc and reaction::action
Calc ==
    \E i \in DOMAIN CreateOrder :
        LET x == CreateOrder[i]
        IN  /\ kind[x] = "free"
            /\ \A j \in 1 .. (i - 1) : kind[CreateOrder[j]] # "free"
            /\ \E ts \in ArgLists(Targets), style \in {"args", "capt"},
                  kd \in IF x \in Actions THEN {"action"} ELSE {"calc"} :
                 /\ style \in Styles(ts)
                 /\ \E r \in {set(addNode(TheGraph, x), [kind EXCEPT ![x] = kd], x,
                                  style, ts, value, m_fun, ord) : ord \in BindOrders(ts)} :
                       Commit([kind EXCEPT ![x] = kd], r.g, r.val, r.fun, g_wait_list,
                              closed, nSets, Call("calc", x, style, ts, r.ret), r.log)

\* React::set on a computed cell, with the argument list drawn from L, while
\* fewer than max rebinds were made.
SetOver(max, L) ==
    /\ nSets < max
    /\ \E x \in {c \in Held : kind[c] \in {"calc", "action"}}, ts \in L,
          style \in {"args", "capt"} :
         /\ style \in Styles(ts)
         /\ \E r \in {set(TheGraph, kind, x, style, ts, value, m_fun, ord) :
                         ord \in BindOrders(ts)} :
               Commit(kind, r.g, r.val, r.fun, g_wait_list, closed, nSets + 1,
                      Call("set", x, style, ts, r.ret), r.log)

\* React::set, once every cell of the run has been constructed.
Set ==
    /\ \A c \in Cells : kind[c] # "free"
    /\ SetOver(MaxSets, ArgLists(Targets))

\* The pulse of a write of v to s under the iteration order ord.
pulse(s, v, ord) ==
    LET ctx == [k |-> kind, ol |-> obList, wt |-> waitObservers, fun |-> m_fun,
                alive |-> alive, ord |-> ord, policy |-> policy,
                thr |-> m_thresholdFun]
        st0 == [val |-> [value EXCEPT ![s] = v], gw |-> g_wait_list,
                chg |-> m_changed, log |-> <<>>, vis |-> <<>>, by |-> s, loop |-> "main",
                err |-> FALSE]
    IN  notifyObservers(s, st0.val[s] # v, st0, ctx)

\* React::value / ReactImpl::operator= on a source cell: updateValue, then
\* notifyObservers(getValue() != t).
Write ==
    \E s \in {c \in Held : kind[c] = "var"}, v \in Val :
      \E st \in {pulse(s, v, ord) : ord \in PulseOrders} :
         CommitAll(kind, TheGraph, st.val, m_fun, st.gw, closed, nSets,
                   Call("write", s, "-", <<>>, IF st.err THEN "throw" ELSE "-"),
                   st.log, [Same(kind) EXCEPT !.chg = st.chg, !.vis = st.vis])

\* React::close; releasing the last handle of a cell does the same through
\* DirectCloseStrategy::handleInvalid.
Close ==
    \E u \in Held :
      \E r \in {cascadeCloseDependents(TheGraph, kind, u, {}, ord) : ord \in CloseOrders} :
         Commit(kind, r.g, value, m_fun, g_wait_list, closed \cup r.closedNodes,
                nSets, Call("close", u, "-", <<>>, "-"), <<>>)

Next == Var \/ Calc \/ Set \/ Write \/ Close

Spec == Init /\ [][Next]_vars

-----------------------------------------------------------------------------
(* Runs that start from a graph of the shape of TestRepeatDependency2: two *)
(* cells read one source and a sink reads both; a = var(v), A = calc(f, a),*)
(* B = calc(g, a), C = action(h, A, B) (or h, B, A). The runs then rebind  *)
(* with closures of at most MaxRebindArgs reads.                           *)

\* The program state as one record, for building a graph call by call.
AsState(k, r) == [k |-> k, g |-> r.g, val |-> r.val, fun |-> r.fun]

\* reaction::calc / reaction::action applied to the state s.
made(s, x, kd, ts) ==
    AsState([s.k EXCEPT ![x] = kd],
            set(addNode(s.g, x), [s.k EXCEPT ![x] = kd], x, "args", ts,
                s.val, s.fun, AnyOrder))

\* reaction::var applied to the empty program.
varOnly(s, v) ==
    [k   |-> [c \in Cells |-> IF c = s THEN "var" ELSE "free"],
     g   |-> addNode(Graph(EmptyMap, EmptyMap, EmptyMap,
                           [c \in Cells |-> <<>>], [c \in Cells |-> {}]), s),
     val |-> [c \in Cells |-> IF c = s THEN v ELSE NoVal],
     fun |-> [c \in Cells |-> NoFun]]

RepeatGraph(v, tsC) ==
    made(made(made(varOnly("a", v), "A", "calc", <<"a">>), "B", "calc", <<"a">>),
         "C", "action", tsC)

\* Every cell has the handle its factory call returned and no other.
OneHandleEach ==
    /\ hnd = [s \in Slots |-> IF s \in Cells THEN s ELSE "absent"]
    /\ m_weakRefCount = [c \in Cells |-> 1]

StartsAs(s, tsC) ==
    /\ kind = s.k
    /\ alive = Cells
    /\ m_dependents = s.g.deps
    /\ m_observers = s.g.obs
    /\ m_repeatDependencies = s.g.rep
    /\ obList = s.g.ol
    /\ waitObservers = s.g.wt
    /\ value = s.val
    /\ m_fun = s.fun
    /\ g_wait_list = {}
    /\ OneHandleEach
    /\ Defaults
    /\ closed = {}
    /\ nSets = 0
    /\ last = Call("calc", "C", "args", tsC, "NoErr")
    /\ log = <<>>

InitRebind ==
    \E v \in Val, tsC \in {<<"A", "B">>, <<"B", "A">>} : StartsAs(RepeatGraph(v, tsC), tsC)

ShortLists(T) == UNION {[1 .. n -> T] : n \in 0 .. MaxRebindArgs}

Rebind == SetOver(MaxRebinds, ShortLists(Targets))

NextRebind == Rebind \/ Write \/ Close

SpecRebind == InitRebind /\ [][NextRebind]_vars

-----------------------------------------------------------------------------
(* Handles: React's constructors, assignment operators and destructor, the *)
(* weak-reference count of ReactImpl and the invalidation strategies.      *)

Strategies == {"DirectCloseStrategy", "KeepCalcStrategy", "LastValStrategy"}

\* The parts of the state a handle operation can change, as one record.
Now ==
    [g |-> TheGraph, val |-> value, fun |-> m_fun, cnt |-> m_weakRefCount,
     inv |-> invalidated, cl |-> closed]

\* m_weakPtr.lock() succeeds for the cell c in the state P.
Locks(P, c) == c \in Cells /\ c \in Existing(P.g, g_wait_list, kind)

\* DirectCloseStrategy::handleInvalid, from the result r of closeNode on.
closeWith(P, r) == [P EXCEPT !.g = r.g, !.cl = @ \cup r.closedNodes]

\* LastValStrategy::handleInvalid, from the result b of ds.set on.
frozen(P, b) == [P EXCEPT !.g = b.g, !.val = b.val, !.fun = b.fun]

\* Every strategy closing the cell as DirectCloseStrategy does.
handleInvalidClosing(P, c, ord) ==
    closeWith(P, cascadeCloseDependents(P.g, kind, c, {}, ord))

\* LastValStrategy leaving the cell as KeepCalcStrategy does.
handleInvalidKept(P, c, ord) ==
    IF strategy[c] = "DirectCloseStrategy"
    THEN closeWith(P, cascadeCloseDependents(P.g, kind, c, {}, ord))
    ELSE P

\* InvalidStrategy::handleInvalid of the cell c.
handleInvalid(P, c, ord) ==
    IF strategy[c] = "DirectCloseStrategy"
    THEN closeWith(P, cascadeCloseDependents(P.g, kind, c, {}, ord))
    ELSE IF strategy[c] = "LastValStrategy" /\ IsData(kind, c)
         THEN frozen(P, bound(resetNode(P.g, c), kind, c,
                              [reads |-> <<>>, const |-> P.val[c]], P.val, P.fun))
    ELSE P

\* releaseWeakRef that runs the strategy whatever the count has become.
releaseWeakRefAlways(P, c, ord) ==
    IF ~Locks(P, c) THEN P
    ELSE handleInvalid([P EXCEPT !.cnt[c] = @ - 1, !.inv[c] = @ + 1], c, ord)

\* if (auto p = m_weakPtr.lock()) p->releaseWeakRef();
releaseWeakRef(P, c, ord) ==
    IF ~Locks(P, c) THEN P
    ELSE IF P.cnt[c] - 1 # 0 THEN [P EXCEPT !.cnt[c] = @ - 1]
    ELSE handleInvalid([P EXCEPT !.cnt[c] = 0, !.inv[c] = @ + 1], c, ord)

\* A copy that leaves the count as it was.
addWeakRefForgotten(P, c) == P

\* if (auto p = m_weakPtr.lock()) p->addWeakRef();
addWeakRef(P, c) == IF Locks(P, c) THEN [P EXCEPT !.cnt[c] = @ + 1] ELSE P

\* The state after a handle operation.
CommitHandles(P, hn, l) ==
    CommitAll(kind, P.g, P.val, P.fun, g_wait_list, P.cl, nSets, l, <<>>,
              Rest(hn, P.cnt, m_changed, m_thresholdFun, P.inv, former, <<>>))

\* The handle variables that exist.
Handles == {s \in Slots : hnd[s] # "absent"}

\* The cells whose handles the runs copy, move, assign and destroy; the
\* handles of the other cells stay as their factory calls returned them.
Tracked == {"a", "A"}

Movable == {s \in Handles : s \in Spare \/ s \in Tracked}

\* The cell type of a handle variable: handles of different cells have
\* different types (each closure has its own type) and cannot be assigned.
TypeOf(s) == IF s \in Cells THEN s ELSE hnd[s]

Assignable(t, s) == t # s /\ TypeOf(t) \in Cells /\ TypeOf(t) = TypeOf(s)

\* React(const React &): auto t = s;
CopyHandle ==
    \E s \in Movable, t \in Spare :
        /\ hnd[t] = "absent"
        /\ CommitHandles(addWeakRef(Now, hnd[s]), [hnd EXCEPT ![t] = hnd[s]],
                         Call("copy", s, "-", <<t>>, "-"))

\* React(React &&): auto t = std::move(s);
MoveHandle ==
    \E s \in Movable, t \in Spare :
        /\ hnd[t] = "absent"
        /\ CommitHandles(Now, [hnd EXCEPT ![t] = hnd[s], ![s] = "empty"],
                         Call("move", s, "-", <<t>>, "-"))

\* React::operator=(const React &): t = s;
AssignCopy ==
    \E s \in Movable, t \in Movable :
        /\ Assignable(t, s)
        /\ \E P \in {addWeakRef(releaseWeakRef(Now, hnd[t], ord), hnd[s]) :
                        ord \in CloseOrders} :
              CommitHandles(P, [hnd EXCEPT ![t] = hnd[s]],
                            Call("assign", s, "-", <<t>>, "-"))

\* React::operator=(React &&): t = std::move(s);
AssignMove ==
    \E s \in Movable, t \in Movable :
        /\ Assignable(t, s)
        /\ \E P \in {releaseWeakRef(Now, hnd[t], ord) : ord \in CloseOrders} :
              CommitHandles(P, [hnd EXCEPT ![t] = hnd[s], ![s] = "empty"],
                            Call("moveAssign", s, "-", <<t>>, "-"))

\* React::~React of the handle variable s, which referred to last.ts[1].
DropHandle ==
    \E s \in Movable :
        \E P \in {releaseWeakRef(Now, hnd[s], ord) : ord \in CloseOrders} :
           CommitHandles(P, [hnd EXCEPT ![s] = "absent"],
                         Call("drop", s, "-", <<hnd[s]>>, "-"))

\* get(), value(), set() or close() through a handle whose weak_ptr is
\* expired or reset: getPtr throws before anything is done.
UseInvalid ==
    \E s \in Handles, op \in {"get", "value", "set", "close"} :
        /\ hnd[s] \notin alive
        /\ last' = Call(op, s, "-", <<hnd[s]>>, "throw")
        /\ log' = <<>>
        /\ visits' = <<>>
        /\ UNCHANGED <<kind, alive, m_dependents, m_observers, m_repeatDependencies,
                       obList, waitObservers, value, m_fun, g_wait_list, hnd,
                       m_weakRefCount, strategy, policy, m_changed, m_thresholdFun,
                       invalidated, former, closed, nSets>>

\* The graphs the runs with handles start from: the sink reads two cells that
\* read a (the shape of TestRepeatDependency2), the same after both cells were
\* rebound to closures that read nothing, and a chain a -> A -> B -> C in
\* which B also reads a (the shape of TestKeepCalculateStrategy).
rebound(s, x) ==
    AsState(s.k, set(s.g, s.k, x, "capt", <<>>, s.val, s.fun, AnyOrder))

ChainGraph(v) ==
    made(made(made(varOnly("a", v), "A", "calc", <<"a">>), "B", "calc", <<"a", "A">>),
         "C", "action", <<"B">>)

HandleGraphs(v) ==
    {RepeatGraph(v, <<"A", "B">>),
     rebound(rebound(RepeatGraph(v, <<"A", "B">>), "A"), "B"),
     ChainGraph(v)}

\* The state s with one handle per cell, the strategies str and the trigger
\* policies pol the cells were declared with.
StartsFrom(s, str, pol) ==
    /\ kind = s.k
    /\ alive = Cells
    /\ m_dependents = s.g.deps
    /\ m_observers = s.g.obs
    /\ m_repeatDependencies = s.g.rep
    /\ obList = s.g.ol
    /\ waitObservers = s.g.wt
    /\ value = s.val
    /\ m_fun = s.fun
    /\ g_wait_list = {}
    /\ OneHandleEach
    /\ strategy = str
    /\ policy = pol
    /\ m_changed = [c \in Cells |-> TRUE]
    /\ m_thresholdFun = [c \in Cells |-> NoThreshold]
    /\ invalidated = [c \in Cells |-> 0]
    /\ former = {}
    /\ visits = <<>>
    /\ closed = {}
    /\ nSets = 0
    /\ last = Call("init", "", "-", <<>>, "-")
    /\ log = <<>>

\* The state s with one handle per cell and the strategy sAB of A and B.
StartsWith(s, sAB) ==
    StartsFrom(s, [c \in Cells |-> IF c \in {"A", "B"} THEN sAB
                                   ELSE "DirectCloseStrategy"],
               [c \in Cells |-> "AlwaysTrigger"])

InitHandle ==
    \E v \in Val, sAB \in Strategies :
        \E s \in HandleGraphs(v) : StartsWith(s, sAB)

NextHandle ==
    \/ CopyHandle \/ MoveHandle \/ AssignCopy \/ AssignMove \/ DropHandle
    \/ Write

SpecHandle == InitHandle /\ [][NextHandle]_vars

\* Runs that close, move and drop handles of cells with the default
\* strategy and then use the handles that no longer refer to a cell.
InitDead ==
    \E v \in Val :
        \E s \in HandleGraphs(v) : StartsWith(s, "DirectCloseStrategy")

NextDead == MoveHandle \/ DropHandle \/ Close \/ UseInvalid

SpecDead == InitDead /\ [][NextDead]_vars

\* The trigger policies a cell can be declared with besides AlwaysTrigger.
TriggerPolicies == {"ChangedTrigger", "ThresholdTrigger"}

\* React::setThreshold(f, d): the predicate of the cell x reads the cell d.
SetThreshold ==
    \E x \in {c \in Held : policy[c] = "ThresholdTrigger"},
       d \in {c \in Held : IsData(kind, c)} :
        CommitAll(kind, TheGraph, value, m_fun, g_wait_list, closed, nSets,
                  Call("setThreshold", x, "-", <<d>>, "-"), <<>>,
                  [Same(kind) EXCEPT !.thr[x] = [set |-> TRUE, reads |-> <<d>>]])

\* The chain a -> A -> B -> C in which B reads A before a.
CrossGraph(v) ==
    made(made(made(varOnly("a", v), "A", "calc", <<"a">>), "B", "calc", <<"A", "a">>),
         "C", "action", <<"B">>)

\* The chain built with A reading nothing, A being rebound to read a after B
\* was bound to a and A.
LateGraph(v) ==
    LET s == made(made(made(varOnly("a", v), "A", "calc", <<>>), "B", "calc", <<"a", "A">>),
                  "C", "action", <<"B">>)
    IN  AsState(s.k, set(s.g, s.k, "A", "args", <<"a">>, s.val, s.fun, AnyOrder))

\* Runs over the graphs of TestKeepCalculateStrategy (with the arguments of B
\* in either order, and with A bound to a last) and TestRepeatDependency2 in
\* which one computed cell was declared with a trigger policy.
InitTrigger ==
    \E v \in Val, x \in Computed, p \in TriggerPolicies :
        \E s \in {ChainGraph(v), CrossGraph(v), LateGraph(v),
                  RepeatGraph(v, <<"A", "B">>)} :
            StartsFrom(s, [c \in Cells |-> "DirectCloseStrategy"],
                       [c \in Cells |-> IF c = x THEN p ELSE "AlwaysTrigger"])

NextTrigger == Write \/ SetThreshold

SpecTrigger == InitTrigger /\ [][NextTrigger]_vars

\* A rebind that clears the edges of the cell before it looks at the type.
setCheckedLate(g, k, x, style, ts, val, fun, ord, conv) ==
    IF conv THEN set(g, k, x, style, ts, val, fun, ord)
    ELSE [g |-> resetNode(g, x), val |-> val, fun |-> fun, ret |-> "ReturnTypeErr",
          log |-> <<>>]

\* Expression::setSource: if constexpr (std::convertible_to<ReturnType, ValueType>)
\* the rebind goes on, else it returns ReturnTypeErr; conv tells whether the
\* closure's result type is convertible.
setChecked(g, k, x, style, ts, val, fun, ord, conv) ==
    IF conv THEN set(g, k, x, style, ts, val, fun, ord)
    ELSE [g |-> g, val |-> val, fun |-> fun, ret |-> "ReturnTypeErr", log |-> <<>>]

\* What a successful rebind of x to the reads ts makes of the record of the
\* latest rebinds: the inputs x had and the inputs it was given.
Rebound(x, ts, ret) ==
    IF ret = "NoErr"
    THEN {f \in former : f.x # x}
            \cup {[x |-> x, old |-> Get(m_dependents, x), new |-> Range(ts)]}
    ELSE former

\* React::set with a closure whose result type is convertible to the value
\* type of the cell (op "set") or is not (op "setWrongType").
Reset ==
    /\ nSets < MaxResets
    /\ \E x \in {c \in Held : kind[c] \in {"calc", "action"}},
          ts \in ArgLists(Targets), style \in {"args", "capt"}, conv \in BOOLEAN :
         /\ style \in Styles(ts)
         /\ \E r \in {setChecked(TheGraph, kind, x, style, ts, value, m_fun, ord, conv) :
                         ord \in BindOrders(ts)} :
               CommitAll(kind, r.g, r.val, r.fun, g_wait_list, closed, nSets + 1,
                         Call(IF conv THEN "set" ELSE "setWrongType", x, style, ts, r.ret),
                         r.log, [Same(kind) EXCEPT !.former = Rebound(x, ts, r.ret)])

\* Runs that rebind the cells of a chain and of a diamond and write to the
\* source (the calls of TestReset).
InitReset ==
    \E s \in {ChainGraph(0), RepeatGraph(0, <<"A", "B">>)} :
        StartsWith(s, "DirectCloseStrategy")

NextReset == Reset \/ Write

SpecReset == InitReset /\ [][NextReset]_vars

------------------------------------------------------------------------------
(* Aggregates with Field sub-cells.  The cell a is the field of the        *)
(* aggregate person, A the source var(person) made, B an observer of the   *)
(* field or the field of a second aggregate person2, C an observer of A.   *)
(* The slot a is the member handle of the caller's person, the slot B that *)
(* of person2, and the slot h the member handle of the aggregate stored in *)
(* A (its m_ptr).                                                          *)

Wrapper == "A"

Member == "h"

\* FieldBase::field for person (and person2 if two): the cell is made and
\* registered in m_fieldMap; it is not added to the graph.
fieldsOnly(two, v, w) ==
    [k   |-> [c \in Cells |-> IF c = "a" \/ (two /\ c = "B") THEN "field" ELSE "free"],
     g   |-> Graph(EmptyMap, EmptyMap, EmptyMap,
                   [c \in Cells |-> <<>>], [c \in Cells |-> {}]),
     val |-> [c \in Cells |-> IF c = "a" THEN v
                              ELSE IF two /\ c = "B" THEN w ELSE NoVal],
     fun |-> [c \in Cells |-> NoFun]]

\* FieldGraph::setField: objPtr becomes an observer of every cell registered
\* under id.
RECURSIVE setFieldFrom(_, _, _, _, _, _)
setFieldFrom(g, k, objPtr, nodes, i, ord) ==
    IF i > Len(nodes) THEN g
    ELSE setFieldFrom(addObserver(g, k, objPtr, nodes[i], ord).g, k, objPtr,
                      nodes, i + 1, ord)

setField(g, k, id, objPtr, ord) ==
    setFieldFrom(g, k, objPtr, SetToSeq(fieldMap(k)[id], ord), 1, ord)

\* The value of the aggregate whose member handle refers to the cell f.
aggregateOf(val, f) == val[f]

\* reaction::var applied to the aggregate id: the cell x stores a copy of the
\* aggregate, setField attaches it to the sub-cells, then addNode.
wrapped(s, x, id, ord) ==
    LET k1 == [s.k EXCEPT ![x] = "var"]
        f  == CHOOSE c \in fieldMap(s.k)[id] : TRUE
    IN  [k   |-> k1,
         g   |-> addNode(setField(s.g, k1, id, x, ord), x),
         val |-> [s.val EXCEPT ![x] = aggregateOf(s.val, f)],
         fun |-> s.fun]

\* The programs of the runs: an observer B of the field declared before or
\* after var(person), no observer of the field, or a second aggregate.
FieldShapes == {"BthenA", "AthenB", "alone", "two"}

FieldGraph(shape, v, w, kd, ts) ==
    LET s0 == fieldsOnly(shape = "two", v, w)
        s1 == IF shape = "BthenA" THEN made(s0, "B", "calc", <<"a">>) ELSE s0
        s2 == wrapped(s1, Wrapper, "person", AnyOrder)
        s3 == IF shape = "AthenB" THEN made(s2, "B", "calc", <<"a">>) ELSE s2
    IN  made(s3, "C", kd, ts)

\* The cells FieldBase::field made.
Fields == UNION Range(fieldMap(kind))

\* React::value on a field cell through the member handle of an aggregate
\* (person.setAge(v), or p->setAge(v) through the stored aggregate): the
\* stored aggregate holding the cell has the new value too.
pulseField(f, v, ord) ==
    LET ctx == [k |-> kind, ol |-> obList, wt |-> waitObservers, fun |-> m_fun,
                alive |-> alive, ord |-> ord, policy |-> policy,
                thr |-> m_thresholdFun]
        st0 == [val |-> [c \in Cells |->
                           IF c = f \/ (c = Wrapper /\ hnd[Member] = f) THEN v
                           ELSE value[c]],
                gw |-> g_wait_list, chg |-> m_changed, log |-> <<>>,
                vis |-> <<>>, by |-> f, loop |-> "main", err |-> FALSE]
    IN  notifyObservers(f, st0.val[f] # v, st0, ctx)

WriteField ==
    \E h \in Slots, v \in Val :
       /\ hnd[h] \in Fields \cap alive
       /\ \E st \in {pulseField(hnd[h], v, ord) : ord \in PulseOrders} :
            CommitAll(kind, TheGraph, st.val, m_fun, st.gw, closed, nSets,
                      Call("write", hnd[h], "-", <<>>, IF st.err THEN "throw" ELSE "-"),
                      st.log, [Same(kind) EXCEPT !.chg = st.chg, !.vis = st.vis])

\* React::value on the wrapping source with the aggregate whose member handle
\* is src: updateValue copy-assigns the aggregate (the member handle is
\* copy-assigned: release, then add), then notifyObservers(true) as the
\* aggregate type has no operator==.
Reassign ==
    \E src \in Cells :
       /\ Wrapper \in Held
       /\ hnd[src] \in Fields \cap alive
       /\ hnd[Member] \in Fields
       /\ \E ord \in PulseOrders :
            LET P1  == addWeakRef(releaseWeakRef(Now, hnd[Member], ord), hnd[src])
                al  == Existing(P1.g, g_wait_list, kind)
                ctx == [k |-> kind, ol |-> P1.g.ol, wt |-> P1.g.wt, fun |-> P1.fun,
                        alive |-> al, ord |-> ord, policy |-> policy,
                        thr |-> m_thresholdFun]
                st0 == [val |-> [P1.val EXCEPT ![Wrapper] = aggregateOf(P1.val, hnd[src])],
                        gw |-> g_wait_list, chg |-> m_changed, log |-> <<>>,
                        vis |-> <<>>, by |-> Wrapper, loop |-> "main",
                        err |-> FALSE]
                st  == notifyObservers(Wrapper, TRUE, st0, ctx)
            IN  CommitAll(kind, P1.g, st.val, P1.fun, st.gw, P1.cl, nSets,
                          Call("reassign", Wrapper, "-", <<hnd[src]>>,
                               IF st.err THEN "throw" ELSE "-"),
                          st.log,
                          Rest([hnd EXCEPT ![Member] = hnd[src]], P1.cnt, st.chg,
                               m_thresholdFun, P1.inv,
                               former \cup {[x |-> Wrapper, old |-> {hnd[Member]},
                                             new |-> {hnd[src]}]},
                               st.vis))

\* Runs over an aggregate with one field wrapped by var, with an observer of
\* the wrapping source reading it alone or together with the field.
InitField ==
    \E shape \in FieldShapes, v \in Val, w \in Val, kd \in {"calc", "action"},
       ts \in {<<"A">>, <<"a", "A">>} :
        LET s == FieldGraph(shape, v, w, kd, ts)
        IN  /\ kind = s.k
            /\ alive = {c \in Cells : s.k[c] # "free"}
            /\ m_dependents = s.g.deps
            /\ m_observers = s.g.obs
            /\ m_repeatDependencies = s.g.rep
            /\ obList = s.g.ol
            /\ waitObservers = s.g.wt
            /\ value = s.val
            /\ m_fun = s.fun
            /\ g_wait_list = {}
            /\ hnd = [h \in Slots |-> IF h = Member THEN "a"
                                      ELSE IF s.k[h] = "free" THEN "absent" ELSE h]
            /\ m_weakRefCount = [c \in Cells |-> IF c = hnd[Member] THEN 1 + 1 ELSE 1]
            /\ strategy = [c \in Cells |-> "DirectCloseStrategy"]
            /\ policy = [c \in Cells |-> "AlwaysTrigger"]
            /\ m_changed = [c \in Cells |-> TRUE]
            /\ m_thresholdFun = [c \in Cells |-> NoThreshold]
            /\ invalidated = [c \in Cells |-> 0]
            /\ former = {}
            /\ visits = <<>>
            /\ closed = {}
            /\ nSets = 0
            /\ last = Call("init", "", "-", <<>>, "-")
            /\ log = <<>>

NextField == WriteField \/ Reassign

SpecField == InitField /\ [][NextField]_vars

------------------------------------------------------------------------------
(* The diamond of TestRepeatDependency2 with its own closures.             *)

MaxSourceVal == 7

SourceVals == 0 .. MaxSourceVal

\* reaction::calc with the closure f, in args style (the cells f reads are
\* passed as arguments) or in capture style (f reads them through handles).
calcWith(s, x, style, f) ==
    LET k == [s.k EXCEPT ![x] = "calc"]
        g == addNode(s.g, x)
    IN  AsState(k, IF style = "args"
                   THEN afterUpdate(updateObservers(g, k, x, f.reads, AnyOrder),
                                    k, x, f, s.val, s.fun)
                   ELSE bound(updateEachObserver(resetNode(g, x), k, x, f.reads,
                                                 1, AnyOrder),
                              k, x, f, s.val, s.fun))

\* a = var(v); A = calc(a() + 1); B = calc(a() + 2); C = calc(A() + B() + 5),
\* C reading its inputs in the order ts.
DiamondGraph(v, style, ts) ==
    calcWith(calcWith(calcWith(varOnly("a", v),
                               "A", style, [reads |-> <<"a">>, plus |-> 1]),
                      "B", style, [reads |-> <<"a">>, plus |-> 2]),
             "C", style, [reads |-> ts, plus |-> 5])

InitDiamond ==
    \E v \in SourceVals, style \in {"args", "capt"},
       ts \in {<<"A", "B">>, <<"B", "A">>} :
        StartsFrom(DiamondGraph(v, style, ts),
                   [c \in Cells |-> "DirectCloseStrategy"],
                   [c \in Cells |-> "AlwaysTrigger"])

\* React::value on the source with a value of SourceVals.
WriteWide ==
    \E s \in {c \in Held : kind[c] = "var"}, v \in SourceVals :
      \E st \in {pulse(s, v, ord) : ord \in PulseOrders} :
         CommitAll(kind, TheGraph, st.val, m_fun, st.gw, closed, nSets,
                   Call("write", s, "-", <<>>, IF st.err THEN "throw" ELSE "-"),
                   st.log, [Same(kind) EXCEPT !.chg = st.chg, !.vis = st.vis])

NextDiamond == WriteWide

SpecDiamond == InitDiamond /\ [][NextDiamond]_vars

------------------------------------------------------------------------------
(* A cell bound to three arguments, which can be deferred at several cells. *)

MaxNestedArgs == 3

\* a = var(v); A = calc(f, a); B = calc(f, tsB...); C bound to the arguments
\* ts, the dependents sets being iterated in the order ord.
NestedGraph(v, tsB, kd, ts, ord) ==
    LET s == made(made(varOnly("a", v), "A", "calc", <<"a">>), "B", "calc", tsB)
        k == [s.k EXCEPT !["C"] = kd]
    IN  AsState(k, set(addNode(s.g, "C"), k, "C", "args", ts, s.val, s.fun, ord))

InitNested ==
    \E v \in Val, tsB \in {<<"A">>, <<"a">>, <<"A", "a">>},
       kd \in {"calc", "action"},
       ts \in [1 .. MaxNestedArgs -> {"a", "A", "B"}], ord \in Orders :
        StartsFrom(NestedGraph(v, tsB, kd, ts, ord),
                   [c \in Cells |-> "DirectCloseStrategy"],
                   [c \in Cells |-> "AlwaysTrigger"])

NextNested == Write

SpecNested == InitNested /\ [][NextNested]_vars

------------------------------------------------------------------------------
(* Cells bound to closures that capture their handles and read a handle    *)
(* more than once.                                                          *)

MaxReads == 3

\* The sequences of handle reads a capturing closure makes over the handles
\* in T.
ReadLists(T) == UNION {[1 .. n -> T] : n \in 1 .. MaxReads}

\* reaction::calc / reaction::action applied to a closure without arguments:
\* addNode, then set(f), which registers every handle the closure reads.
captured(s, x, kd, ts, ord) ==
    LET k == [s.k EXCEPT ![x] = kd]
    IN  AsState(k, set(addNode(s.g, x), k, x, "capt", ts, s.val, s.fun, ord))

\* a = var(v); A = calc(f, a); B = calc([&]{ reads tsB }); C = calc or action
\* of a closure that reads ts.
CaptureGraph(v, tsB, kd, ts, ord) ==
    captured(captured(made(varOnly("a", v), "A", "calc", <<"a">>),
                      "B", "calc", tsB, ord),
             "C", kd, ts, ord)

InitCapture ==
    \E v \in Val, tsB \in {<<"a">>, <<"a", "a">>, <<"A", "a">>}, kd \in {"calc", "action"},
       ts \in ReadLists({"a", "A", "B"}), ord \in Orders :
        StartsFrom(CaptureGraph(v, tsB, kd, ts, ord),
                   [c \in Cells |-> "DirectCloseStrategy"],
                   [c \in Cells |-> "AlwaysTrigger"])

NextCapture == Write

SpecCapture == InitCapture /\ [][NextCapture]_vars

-----------------------------------------------------------------------------
(* The properties.                                                         *)

\* The cells reachable from the cells of S along the edges of the map m,
\* the cells of S included.
RECURSIVE Closure(_, _)
Closure(m, S) ==
    LET S1 == S \cup UNION {Get(m, c) : c \in S}
    IN  IF S1 = S THEN S ELSE Closure(m, S1)

\* x reads t, or reads a cell that transitively depends on t (t = x included).
Reaches(m, x, t) == t \in Closure(m, {x})

\* C1: in every reachable state the committed dependents edges contain no
\* cycle: no cell is reachable from itself by following dependents edges.
C1_Acyclic ==
    \A c \in Cells : c \notin Closure(m_dependents, Get(m_dependents, c))

\* C1's case: a bind that asked for a cycle through another cell has been made
\* (the cell it names still depends on the rebound cell).
C1_CyclicBindTried ==
    /\ last.op = "set"
    /\ \E i \in DOMAIN last.ts :
          last.ts[i] # last.x /\ Reaches(m_dependents, last.ts[i], last.x)

\* C2: an args-style rebind X.set(f, t1..tn) returns CycleDepErr exactly when
\* some ti is X or transitively depends on X in the graph at the time of the
\* call, and NoErr otherwise.
C2_CycleErrIff ==
    [][(last'.op = "set" /\ last'.style = "args")
         => /\ last'.ret \in {"CycleDepErr", "NoErr"}
            /\ last'.ret = "CycleDepErr"
                 <=> \E i \in DOMAIN last'.ts :
                        Reaches(m_dependents, last'.ts[i], last'.x)]_vars

\* C2's case: an args-style rebind was rejected because an argument other than
\* the cell itself depends on the cell.
C2_TransitiveRejected ==
    /\ last.op = "set" /\ last.style = "args" /\ last.ret = "CycleDepErr"
    /\ \A i \in DOMAIN last.ts : last.ts[i] # last.x
    /\ \E i \in DOMAIN last.ts : Reaches(m_dependents, last.ts[i], last.x)

\* C3: an args-style rebind rejected with CycleDepErr leaves X's dependents
\* set, the observer lists of X's previous inputs, X's closure and X's stored
\* value as they were before the call.
C3_RejectedKeepsBindings ==
    [][(last'.op = "set" /\ last'.style = "args" /\ last'.ret = "CycleDepErr")
         => /\ Get(m_dependents', last'.x) = Get(m_dependents, last'.x)
            /\ \A t \in Get(m_dependents, last'.x) : obList'[t] = obList[t]
            /\ m_fun'[last'.x] = m_fun[last'.x]
            /\ value'[last'.x] = value[last'.x]]_vars

\* C3's failing state: after a rejected args-style rebind the cell's closure
\* still reads a cell that the cell no longer observes.
C3_BindingsLost ==
    /\ last.op = "set" /\ last.style = "args" /\ last.ret = "CycleDepErr"
    /\ \E t \in Range(m_fun[last.x].reads) :
          t \notin Get(m_dependents, last.x) /\ last.x \notin Range(obList[t])

\* C4: a capture-style rebind ds.set(f) whose closure reads ds itself, or a cell
\* that transitively depends on ds, returns CycleDepErr.
C4_CaptureCycleErr ==
    [][(/\ last'.op = "set" /\ last'.style = "capt"
        /\ \E i \in DOMAIN last'.ts : Reaches(m_dependents, last'.ts[i], last'.x))
         => last'.ret = "CycleDepErr"]_vars

\* C4's failing state: a capture-style rebind whose closure reads the cell
\* itself has returned NoErr.
C4_SelfReadAccepted ==
    /\ last.op = "set" /\ last.style = "capt" /\ last.ret = "NoErr"
    /\ last.x \in Range(last.ts)

\* C5: after a write to a source S has returned, every live computed cell that
\* transitively depends on S stores its closure applied to the current stored
\* values of the cells it reads.
C5_FinalConsistency ==
    (last.op = "write" /\ last.ret = "-")
      => \A x \in alive :
            (kind[x] = "calc" /\ last.x \in Closure(m_dependents, Get(m_dependents, x)))
               => value[x] = evaluate(m_fun[x], value)

\* Every closure reads exactly the cells its cell observes, and no pulse was
\* left unfinished by an exception.
ReadsAreEdges ==
    /\ g_wait_list = {}
    /\ \A x \in alive : Range(m_fun[x].reads) = Get(m_dependents, x)

\* The final consistency of C5 in the states where the edges are the reads.
ConsistentWhereReadsAreEdges == ReadsAreEdges => C5_FinalConsistency

\* C5's failing state: the write has returned and a cell that observes the
\* written source stores a value its closure does not yield.
C5_StaleAfterWrite ==
    /\ last.op = "write" /\ last.ret = "-"
    /\ \E x \in alive :
          /\ kind[x] = "calc" /\ last.x \in Get(m_dependents, x)
          /\ value[x] # evaluate(m_fun[x], value)

\* C6: during one write the closure of each computed or action cell is invoked
\* at most once.
C6_AtMostOnce ==
    \A i, j \in DOMAIN log : i # j => log[i].c # log[j].c

\* C6's failing state: one write that returned has invoked twice the closure
\* of a cell that reads two different cells, each of them once, and observes
\* exactly the cells it reads.
C6_RanTwice ==
    /\ last.op = "write" /\ last.ret = "-"
    /\ \E i, j \in DOMAIN log :
          /\ i < j /\ log[i].c = log[j].c
          /\ Len(m_fun[log[i].c].reads) = 2
          /\ Cardinality(Range(m_fun[log[i].c].reads)) = 2
          /\ Range(m_fun[log[i].c].reads) = Get(m_dependents, log[i].c)

\* C7: in a diamond S -> A -> C with S -> C, a write to S runs C's closure only
\* after A has been recomputed for that write.
C7_DiamondOrder ==
    (last.op = "write" /\ last.ret = "-")
      => \A A, C \in alive :
            (/\ kind[A] = "calc"
             /\ last.x \in Get(m_dependents, A)
             /\ {last.x, A} \subseteq Get(m_dependents, C))
               => \A i \in DOMAIN log :
                     log[i].c = C => \E j \in 1 .. (i - 1) : log[j].c = A

\* C7's failing state: C reads exactly S and A, A reads exactly S, no cell is
\* registered in the wait set of S, and the first closure the write ran was C's.
C7_SinkRanFirst ==
    /\ last.op = "write" /\ last.ret = "-" /\ log # <<>>
    /\ waitObservers[last.x] = {}
    /\ \E A, C \in alive :
          /\ kind[A] = "calc"
          /\ Get(m_dependents, A) = {last.x}
          /\ Get(m_dependents, C) = {last.x, A}
          /\ log[1].c = C

\* C8: whenever a closure runs during a pulse, the cells it depends on are at
\* their pulse-final values: none of them has its stored value changed later
\* in the same pulse.
C8_InputsFinal ==
    \A i, j \in DOMAIN log :
       (i < j /\ log[j].old # log[j].new)
          => log[j].c \notin Get(m_dependents, log[i].c)

\* C8's failing state: a data cell ran, and a cell it depends on changed its
\* stored value afterwards in the same pulse.
C8_ReadThenChanged ==
    /\ last.op = "write"
    /\ \E i, j \in DOMAIN log :
          /\ i < j /\ log[j].old # log[j].new
          /\ kind[log[i].c] = "calc"
          /\ log[j].c \in Get(m_dependents, log[i].c)

\* C9: after close(u) returns, u and every cell reachable from u along
\* observer edges are closed (their handles convert to false), and no other
\* cell changes liveness.
C9_CascadeComplete ==
    [][last'.op = "close"
         => /\ alive' \cap Closure(m_observers, {last'.x}) = {}
            /\ alive' \ Closure(m_observers, {last'.x})
                 = alive \ Closure(m_observers, {last'.x})]_vars

\* C9's failing state: close(u) has returned and the handle of u is still
\* valid, after its two observers were rebound to closures that read nothing.
C9_ClosedStillValid ==
    /\ last.op = "close" /\ last.x \in alive
    /\ m_fun["A"].reads = <<>> /\ m_fun["B"].reads = <<>>

\* C10: between public calls, for all live cells u and v: v is in the
\* dependents set of u iff u is in the observers set of v iff u occurs in v's
\* observer list; and a closed cell occurs in no dependents set, observers set
\* or observer list.
C10_Mirror ==
    /\ \A u, v \in alive :
          /\ v \in Get(m_dependents, u) <=> u \in Get(m_observers, v)
          /\ u \in Get(m_observers, v) <=> u \in Range(obList[v])
    /\ \A c \in closed, x \in Cells :
          /\ c \notin Get(m_dependents, x)
          /\ c \notin Get(m_observers, x)
          /\ c \notin Range(obList[x])

\* The mirror of C10 in the states where no closed cell has a valid handle.
MirrorWhereClosedIsDead == (closed \cap alive = {}) => C10_Mirror

\* C10's failing state: a cell that a close has reached still has a valid
\* handle, is in the dependents set of a live cell and holds that cell in its
\* observer list.
C10_ClosedWithEdgesLeft ==
    \E c \in closed \cap alive, x \in alive :
        /\ c \in Get(m_dependents, x)
        /\ x \in Range(obList[c])

\* The handle variables that refer to the cell c.
HandlesOf(h, c) == {s \in Slots : h[s] = c}

\* The graph, the stored values and the closures are left as they were.
GraphUnchanged ==
    UNCHANGED <<alive, m_dependents, m_observers, m_repeatDependencies, obList,
                waitObservers, value, m_fun>>

\* C11: for a live cell c with DirectCloseStrategy, destroying a handle of c
\* while another handle of c exists leaves the cells, values and edges
\* unchanged; destroying the last handle of c closes c and every cell
\* reachable from c along observer edges, and leaves every other cell alive.
C11_DropCloseStrategy ==
    [][(/\ last'.op = "drop"
        /\ last'.ts[1] \in alive
        /\ strategy[last'.ts[1]] = "DirectCloseStrategy")
         => IF HandlesOf(hnd', last'.ts[1]) # {}
            THEN GraphUnchanged
            ELSE /\ alive' \cap Closure(m_observers, {last'.ts[1]}) = {}
                 /\ alive' \ Closure(m_observers, {last'.ts[1]})
                      = alive \ Closure(m_observers, {last'.ts[1]})]_vars

\* C11's failing state: the last handle of a cell with DirectCloseStrategy was
\* destroyed and the cell's object still exists.
C11_DroppedStillThere ==
    /\ last.op = "drop"
    /\ last.ts[1] \in alive
    /\ strategy[last.ts[1]] = "DirectCloseStrategy"
    /\ HandlesOf(hnd, last.ts[1]) = {}

\* C12: the invalidation strategy of a live cell is executed exactly once, in
\* the step in which the number of handles that refer to the cell drops to
\* zero, and in no other step.
C12_StrategyOnceAtZero ==
    [][\A c \in Cells :
          /\ invalidated'[c] <= 1
          /\ invalidated'[c] - invalidated[c] =
                IF /\ c \in alive
                   /\ HandlesOf(hnd, c) # {}
                   /\ HandlesOf(hnd', c) = {}
                THEN 1 ELSE 0]_vars

\* C12's case: the last handle of a KeepCalcStrategy cell that had two handles
\* was destroyed, and the strategy has run once.
C12_RanAtLastDrop ==
    /\ last.op = "drop"
    /\ last.x \in Spare
    /\ last.ts[1] \in alive
    /\ strategy[last.ts[1]] = "KeepCalcStrategy"
    /\ hnd[last.ts[1]] = "empty"
    /\ invalidated[last.ts[1]] = 1

\* C13: the weak-reference count of each live cell is the number of handle
\* variables that refer to it.
C13_CountIsHandles ==
    \A c \in alive : m_weakRefCount[c] = Cardinality(HandlesOf(hnd, c))

\* C13's case: a cell has two handles after a copy, or one handle and an
\* emptied moved-from handle after a move.
C13_CopiedOrMoved ==
    \/ /\ last.op = "copy"
       /\ \E c \in alive : m_weakRefCount[c] = 2
    \/ /\ last.op \in {"move", "moveAssign"}
       /\ hnd[last.x] = "empty"
       /\ \E c \in alive : hnd[last.ts[1]] = c /\ m_weakRefCount[c] = 1

\* The cell c ran in the pulse recorded in the log lg.
RanIn(lg, c) == \E i \in DOMAIN lg : lg[i].c = c

\* The cells with the strategy st whose last handle was destroyed.
Orphans(st) ==
    {c \in alive : strategy[c] = st /\ invalidated[c] = 1}

\* C14: when the last handle of a KeepCalcStrategy cell is destroyed the cell
\* stays in the graph with the same dependents and observers; a later write to
\* a source it depends on recomputes it, and its observers run too.
C14_KeepCalc ==
    [][/\ \A c \in alive :
            (strategy[c] = "KeepCalcStrategy" /\ invalidated'[c] # invalidated[c])
               => GraphUnchanged
       /\ (last'.op = "write" /\ last'.ret = "-")
            => \A c \in Orphans("KeepCalcStrategy") :
                  /\ c \in alive'
                  /\ Get(m_dependents', c) = Get(m_dependents, c)
                  /\ Get(m_observers', c) = Get(m_observers, c)
                  /\ last'.x \in Closure(m_dependents, {c})
                       => /\ RanIn(log', c)
                          /\ value'[c] = evaluate(m_fun[c], value')
                          /\ \A o \in Get(m_observers, c) : RanIn(log', o)]_vars

\* C14's case: a write has changed the value of a KeepCalcStrategy cell that
\* has no handle left, and an observer of the cell ran.
C14_OrphanRecomputed ==
    /\ last.op = "write"
    /\ \E c \in Orphans("KeepCalcStrategy") :
          /\ HandlesOf(hnd, c) = {}
          /\ \E i \in DOMAIN log : log[i].c = c /\ log[i].old # log[i].new
          /\ \E o \in Get(m_observers, c) : RanIn(log, o)

\* C15: when the last handle of a LastValStrategy data cell is destroyed the
\* cell stays alive with no dependents and its value as it was; no later write
\* changes its value, and its observers stay bound to it, stay alive and are
\* recomputed from the kept value.
C15_LastVal ==
    [][/\ \A c \in alive :
            (strategy[c] = "LastValStrategy" /\ invalidated'[c] # invalidated[c])
               => /\ alive' = alive
                  /\ Get(m_dependents', c) = {}
                  /\ value'[c] = value[c]
                  /\ Get(m_observers', c) = Get(m_observers, c)
       /\ (last'.op = "write" /\ last'.ret = "-")
            => \A c \in Orphans("LastValStrategy") :
                  /\ c \in alive'
                  /\ Get(m_dependents', c) = {}
                  /\ value'[c] = value[c]
                  /\ ~RanIn(log', c)
                  /\ Get(m_observers', c) = Get(m_observers, c)
                  /\ \A o \in Get(m_observers, c) :
                        /\ o \in alive'
                        /\ (kind[o] = "calc" /\ RanIn(log', o))
                             => value'[o] = evaluate(m_fun[o], value')]_vars

\* C15's case: a write has changed the value of an observer of a
\* LastValStrategy cell that has no handle left and returns its kept value.
C15_ObserverOfKept ==
    /\ last.op = "write"
    /\ \E c \in Orphans("LastValStrategy") :
          /\ HandlesOf(hnd, c) = {}
          /\ "const" \in DOMAIN m_fun[c]
          /\ \E i \in DOMAIN log :
                log[i].c \in Get(m_observers, c) /\ log[i].old # log[i].new

\* C16: a handle whose cell was closed (by close(), by a cascade or by
\* DirectCloseStrategy) or that was moved from converts to false, and get(),
\* value(), set() and close() through such a handle throw and change nothing.
C16_InvalidHandleThrows ==
    [][/\ \A s \in Slots :
            (hnd'[s] = "empty" \/ hnd'[s] \in closed') => hnd'[s] \notin alive'
       /\ (last'.op \in {"get", "value", "set", "close"} /\ last'.ret = "throw")
            => /\ GraphUnchanged
               /\ UNCHANGED <<hnd, m_weakRefCount, closed>>]_vars

\* C16's failing state: close() was called through a handle, and the handle
\* still refers to a cell that exists.
C16_ClosedHandleConverts ==
    /\ last.op = "close"
    /\ hnd[last.x] = last.x
    /\ last.x \in closed
    /\ last.x \in alive

\* The largest element of a non-empty set of numbers.
Latest(S) == CHOOSE j \in S : \A i \in S : i <= j

\* The entries of the log of this step's pulse written for the cell n before
\* the log had more than k entries.
EntriesOf(n, k) == {j \in 1 .. k : log'[j].c = n}

\* The value of the cell n changed in this step's pulse before the visit made
\* when the log had k entries: the written source has a new value, a computed
\* cell's latest run returned a value different from the one it had.
ActuallyChanged(n, k) ==
    IF n = last'.x THEN value'[n] # value[n]
    ELSE /\ EntriesOf(n, k) # {}
         /\ log'[Latest(EntriesOf(n, k))].old # log'[Latest(EntriesOf(n, k))].new

\* C17: in a write, a visit of a ChangedTrigger cell runs its closure if and
\* only if the value of the cell that notified it has changed in this pulse,
\* whether the notifier is a computed cell or the written source.
C17_ChangedTriggerIff ==
    [][(last'.op = "write" /\ last'.ret = "-")
         => \A i \in DOMAIN visits' :
               policy[visits'[i].c] = "ChangedTrigger"
                 => (visits'[i].ran
                       <=> ActuallyChanged(visits'[i].by, visits'[i].at))]_vars

\* C17's failing state: the written source notified a ChangedTrigger cell that
\* reads it, the closure did not run, and the cell stores a value its closure
\* no longer yields.
C17_SourceChangeIgnored ==
    /\ last.op = "write" /\ last.ret = "-"
    /\ \E i \in DOMAIN visits :
          /\ policy[visits[i].c] = "ChangedTrigger"
          /\ visits[i].by = last.x
          /\ last.x \in Range(m_fun[visits[i].c].reads)
          /\ ~visits[i].ran
          /\ ~RanIn(log, visits[i].c)
          /\ kind[visits[i].c] = "calc"
          /\ value[visits[i].c] # evaluate(m_fun[visits[i].c], value)

\* The values the cells had in this step's pulse when the log had k entries.
ValAt(k) ==
    [c \in Cells |->
        IF c = last'.x THEN value'[c]
        ELSE IF EntriesOf(c, k) = {} \/ kind[c] # "calc" THEN value[c]
        ELSE log'[Latest(EntriesOf(c, k))].new]

\* What C18 says of the visit v of a ThresholdTrigger cell: without a
\* threshold the closure runs; with one it runs if and only if the predicate
\* holds of the values at the time of the visit.
RunsIffThreshold(v) ==
    IF ~m_thresholdFun[v.c].set THEN v.ran
    ELSE v.ran <=> (SumVals(m_thresholdFun[v.c].reads, ValAt(v.at)) % ValMod = 0)

\* The cells the cell x depends on are not recomputed after the visit made
\* when the log had k entries.
UpstreamDone(x, k) ==
    \A j \in (k + 1) .. Len(log') :
        log'[j].c \notin Closure(m_dependents, Get(m_dependents, x))

\* A cell none of whose visits ran keeps its value and notifies no cell.
QuietIfDeclined(x) ==
    (\A i \in DOMAIN visits' : visits'[i].c = x => ~visits'[i].ran)
      => /\ value'[x] = value[x]
         /\ ~RanIn(log', x)
         /\ \A i \in DOMAIN visits' : visits'[i].by # x

\* The part of C18 about the decision taken at each visit.
ThresholdDecides ==
    [][(last'.op = "write" /\ last'.ret = "-")
         => \A i \in DOMAIN visits' :
               policy[visits'[i].c] = "ThresholdTrigger"
                 => /\ RunsIffThreshold(visits'[i])
                    /\ QuietIfDeclined(visits'[i].c)]_vars

\* C18: a visit of a ThresholdTrigger cell runs the closure whenever no
\* threshold was set; after setThreshold(P) it runs the closure if and only if
\* P holds at the time of the visit, and the cells the visited cell depends on
\* have been recomputed by then; a cell whose visits do not run keeps its
\* value and notifies no observer.
C18_ThresholdAfterUpstream ==
    [][(last'.op = "write" /\ last'.ret = "-")
         => \A i \in DOMAIN visits' :
               policy[visits'[i].c] = "ThresholdTrigger"
                 => /\ RunsIffThreshold(visits'[i])
                    /\ QuietIfDeclined(visits'[i].c)
                    /\ m_thresholdFun[visits'[i].c].set
                         => UpstreamDone(visits'[i].c, visits'[i].at)]_vars

\* C18's failing state: the predicate of a ThresholdTrigger cell was asked in
\* a visit and a cell the visited cell reads was recomputed, to another value,
\* after that visit.
C18_AskedBeforeUpstream ==
    /\ last.op = "write" /\ last.ret = "-"
    /\ \E i \in DOMAIN visits :
          /\ policy[visits[i].c] = "ThresholdTrigger"
          /\ m_thresholdFun[visits[i].c].set
          /\ \E j \in (visits[i].at + 1) .. Len(log) :
                /\ log[j].c \in Range(m_fun[visits[i].c].reads)
                /\ log[j].old # log[j].new

\* C19: a rebind with a closure whose result type is not convertible to the
\* value type of the cell returns ReturnTypeErr and leaves the dependents, the
\* observer lists, the closures and the values as they were.
C19_WrongTypeChangesNothing ==
    [][last'.op = "setWrongType"
         => /\ last'.ret = "ReturnTypeErr"
            /\ GraphUnchanged]_vars

\* C19's case: a rebind of a cell that has dependents was rejected for its
\* result type.
C19_WrongTypeRejected ==
    /\ last.op = "setWrongType"
    /\ last.ret = "ReturnTypeErr"
    /\ Get(m_dependents, last.x) # {}
    /\ Range(last.ts) # Get(m_dependents, last.x)

\* C20: after a successful rebind of X to the inputs N the dependents of X are
\* exactly N and X observes no former input outside N; a later write to such a
\* former input does not run X and leaves its value, and a later write to a
\* cell of N recomputes X with the new closure.
C20_ReboundToNewInputs ==
    [][/\ (last'.op = "set" /\ last'.ret = "NoErr")
            => /\ Get(m_dependents', last'.x) = Range(last'.ts)
               /\ \A c \in Get(m_dependents, last'.x) \ Range(last'.ts) :
                     /\ last'.x \notin Get(m_observers', c)
                     /\ last'.x \notin Range(obList'[c])
                     /\ last'.x \notin waitObservers'[c]
       /\ (last'.op = "write" /\ last'.ret = "-")
            => \A f \in former :
                  f.x \in alive
                    => /\ last'.x \in f.old \ f.new
                            => /\ ~RanIn(log', f.x)
                               /\ value'[f.x] = value[f.x]
                       /\ last'.x \in f.new
                            => /\ RanIn(log', f.x)
                               /\ kind[f.x] = "calc"
                                    => value'[f.x] = evaluate(m_fun[f.x], value')]_vars

\* C20's failing state: a rebind of a cell that had inputs has returned NoErr,
\* the new closure reads the cell itself or a cell that reads it, and the
\* dependents of the cell are not the cells the new closure reads.
C20_ReboundWithoutEdges ==
    /\ last.op = "set" /\ last.ret = "NoErr" /\ last.style = "capt"
    /\ \E f \in former : f.x = last.x /\ f.old # {} /\ f.new = Range(last.ts)
    /\ \E c \in Range(last.ts) : c = last.x \/ last.x \in Closure(m_dependents, {c})
    /\ Get(m_dependents, last.x) # Range(last.ts)

\* C21: in a run over an aggregate whose field sub-cell was registered to the
\* source var() made, a write to the sub-cell that returns has run every
\* observer of that source within the write, and a computed observer holds
\* the value of its closure on the new field value when the write is to a
\* sub-cell of the aggregate the source stores.
C21_FieldWriteRunsObservers ==
    [][(/\ last'.op = "write" /\ last'.ret = "-"
        /\ last'.x \in Fields
        /\ Wrapper \in Range(obList[last'.x]))
       => \A o \in Range(obList[Wrapper]) :
             /\ RanIn(log', o)
             /\ (hnd[Member] = last'.x /\ kind[o] = "calc")
                   => value'[o] = evaluate(m_fun[o], value')]_vars

\* A field write through the stored aggregate has changed the value of a
\* computed observer of the wrapping source.
C21_ObserverSawFieldWrite ==
    /\ last.op = "write" /\ last.ret = "-"
    /\ last.x = hnd[Member] /\ last.x \in Fields
    /\ Wrapper \in Range(obList[last.x])
    /\ \E i \in DOMAIN log :
          /\ log[i].c \in Range(obList[Wrapper])
          /\ kind[log[i].c] = "calc"
          /\ log[i].old # log[i].new
          /\ log[i].new = value[log[i].c]

\* C22: when the wrapping source is given a new aggregate, the source is an
\* observer of the sub-cells of the aggregate it now stores once the call
\* returns, and a later write to a sub-cell of the stored aggregate runs
\* every observer of the source.
C22_RegistryFollowsReassign ==
    [][/\ (last'.op = "reassign" /\ last'.ret = "-")
            => Wrapper \in Range(obList'[hnd'[Member]])
       /\ (last'.op = "write" /\ last'.ret = "-" /\ last'.x = hnd[Member])
            => \A o \in Range(obList[Wrapper]) : RanIn(log', o)]_vars

\* After a reassignment a write to the sub-cell of the stored aggregate has
\* returned without running an observer of the source, whose value is not
\* that of its closure.
C22_StoredFieldUnobserved ==
    /\ last.op = "write" /\ last.ret = "-"
    /\ last.x = hnd[Member]
    /\ former # {}
    /\ \E o \in Range(obList[Wrapper]) :
          /\ ~RanIn(log, o)
          /\ kind[o] = "calc"
          /\ value[o] # evaluate(m_fun[o], value)

\* C28: within a write to a field sub-cell that the wrapping source
\* observes, every visit the sub-cell pays to an observer of its own other
\* than the source comes before every visit the source pays to an observer.
C28_FieldObserversFirst ==
    [][(/\ last'.op = "write" /\ last'.ret = "-"
        /\ last'.x \in Fields
        /\ Wrapper \in Range(obList[last'.x]))
       => \A i \in DOMAIN visits', j \in DOMAIN visits' :
             (/\ visits'[i].by = last'.x /\ visits'[i].c # Wrapper
              /\ visits'[j].by = Wrapper)
                => i < j]_vars

\* A field write has run an observer of the wrapping source before an
\* observer of the field that is not the source.
C28_SourceObserverFirst ==
    /\ last.op = "write" /\ last.ret = "-"
    /\ last.x \in Fields
    /\ Wrapper \in Range(obList[last.x])
    /\ \E i \in DOMAIN log, j \in DOMAIN log :
          /\ i < j
          /\ log[i].c \in Range(obList[Wrapper]) /\ log[i].c \notin Range(obList[last.x])
          /\ log[j].c \in Range(obList[last.x]) /\ log[j].c \notin Range(obList[Wrapper])

\* C23: a calc or action call, and every set call that returns NoErr, has
\* invoked the bound closure exactly once when it returns (and no other
\* closure), and a computed cell then stores the closure's result on the
\* input values stored when the call was made.
C23_BoundClosureRunsOnce ==
    [][(last'.op \in {"calc", "set"} /\ last'.ret = "NoErr")
       => /\ Len(log') = 1
          /\ log'[1].c = last'.x
          /\ kind'[last'.x] = "calc"
                => /\ value'[last'.x] = evaluate([reads |-> last'.ts], value)
                   /\ log'[1].new = value'[last'.x]]_vars

\* A computed cell was rebound to a closure that reads a cell, and its value
\* is the closure's result.
C23_ReboundAndEvaluated ==
    /\ last.op = "set" /\ last.ret = "NoErr"
    /\ kind[last.x] = "calc"
    /\ last.ts # <<>>
    /\ Len(log) = 1 /\ log[1].c = last.x /\ log[1].new = value[last.x]

\* The number of paths from the cell x to the cell s along the dependents
\* edges, followed for at most n edges.
RECURSIVE SumOver(_, _, _, _)
RECURSIVE PathCount(_, _, _)
PathCount(x, s, n) ==
    IF x = s THEN 1
    ELSE IF n = 0 THEN 0
    ELSE SumOver(Get(m_dependents, x), s, n - 1, 0)

SumOver(D, s, n, acc) ==
    IF D = {} THEN acc
    ELSE LET d == CHOOSE c \in D : TRUE
         IN  SumOver(D \ {d}, s, n, acc + PathCount(d, s, n))

\* The entries of the log lg that are invocations of the cell x.
Runs(lg, x) == {i \in DOMAIN lg : lg[i].c = x}

\* C24: a write to a source that returns has invoked exactly once the closure
\* of every living AlwaysTrigger cell that has exactly one dependency path to
\* the source, whether or not the written value differs from the stored one.
C24_OnePathOneRun ==
    [][(last'.op = "write" /\ last'.ret = "-")
       => \A x \in alive :
            (/\ kind[x] \in {"calc", "action"}
             /\ policy[x] = "AlwaysTrigger"
             /\ PathCount(x, last'.x, Cardinality(Cells)) = 1)
               => Cardinality(Runs(log', x)) = 1]_vars

\* A write has invoked twice a cell whose only dependency path to the source
\* is its one edge to it.
C24_OneEdgeTwoRuns ==
    /\ last.op = "write" /\ last.ret = "-"
    /\ \E x \in alive :
          /\ kind[x] \in {"calc", "action"}
          /\ Get(m_dependents, x) = {last.x}
          /\ Cardinality(Runs(log, x)) = 2

\* The write a <- 2 made when a stores 1.
TwoOverOne == last'.op = "write" /\ last'.ret = "-" /\ value["a"] = 1 /\ value'["a"] = 2

\* C25 as stated: in the diamond a = var(1), A = a + 1, B = a + 2,
\* ds = A + B + 5 the write a <- 2 evaluates A, B and ds once each and leaves
\* ds = 11.
C25_DiamondLeavesEleven ==
    [][TwoOverOne
       => /\ \A x \in {"A", "B", "C"} : Cardinality(Runs(log', x)) = 1
          /\ value'["C"] = 11]_vars

\* C25 amended: the write a <- 2 evaluates A, B and ds once each and leaves
\* ds = 12 (A = 3, B = 4).
C25_DiamondLeavesTwelve ==
    [][TwoOverOne
       => /\ \A x \in {"A", "B", "C"} : Cardinality(Runs(log', x)) = 1
          /\ value'["A"] = 3 /\ value'["B"] = 4
          /\ value'["C"] = 12]_vars

\* The write a <- 2 has returned with ds evaluated last from the values 8 to
\* 12, in the diamond where ds is deferred at a.
C25_DiamondWritten ==
    /\ last.op = "write" /\ last.ret = "-" /\ value["a"] = 2
    /\ "C" \in waitObservers["a"]
    /\ Len(log) = 3
    /\ log[3] = [c |-> "C", old |-> 8, new |-> 12]

\* The sequence s without the entries equal to x.
Without(s, x) == SelectSeq(s, LAMBDA y : y # x)

\* The first position of the cell c in the observer vector of n.
PlaceIn(n, c) == CHOOSE i \in DOMAIN obList[n] :
                    obList[n][i] = c /\ \A j \in 1 .. (i - 1) : obList[n][j] # c

\* The invocation of n after which the visit v was paid by n (0 for the
\* written source): one notify of n lies between two invocations of n.
PassOf(lg, v) ==
    LET before == {e \in 1 .. v.at : lg[e].c = v.by}
    IN  IF before = {} THEN 0 ELSE CHOOSE e \in before : \A d \in before : d <= e

\* C26: within one notify of a node, the observers outside its wait set are
\* visited in the order of their edges in its observer vector; a rebind that
\* returns NoErr takes the observer out of every observer vector, leaving the
\* order of the others, and puts it at the end of the vector of each cell it
\* now observes.
C26_AttachmentOrder ==
    [][/\ (last'.op = "write" /\ last'.ret = "-")
          => \A i \in DOMAIN visits', j \in DOMAIN visits' :
                (/\ i < j
                 /\ visits'[i].by = visits'[j].by
                 /\ visits'[i].c \notin waitObservers[visits'[i].by]
                 /\ visits'[j].c \notin waitObservers[visits'[j].by]
                 /\ PassOf(log', visits'[i]) = PassOf(log', visits'[j]))
                   => PlaceIn(visits'[i].by, visits'[i].c)
                         <= PlaceIn(visits'[j].by, visits'[j].c)
       /\ (last'.op = "set" /\ last'.ret = "NoErr")
          => \A n \in alive' :
                /\ Without(obList'[n], last'.x) = Without(obList[n], last'.x)
                /\ n \in Get(m_dependents', last'.x)
                      => /\ obList'[n] # <<>>
                         /\ obList'[n][Len(obList'[n])] = last'.x
                /\ n \notin Get(m_dependents', last'.x)
                      => obList'[n] = Without(obList[n], last'.x)]_vars

\* A rebind has moved an observer behind another one in the vector of a cell
\* it observed before and observes now, and a write has since visited the
\* two in the new order.
C26_MovedBehind ==
    /\ last.op = "write" /\ last.ret = "-"
    /\ \E f \in former : \E n \in f.old \cap f.new :
          /\ Len(obList[n]) >= 2
          /\ obList[n][Len(obList[n])] = f.x
          /\ \E i \in DOMAIN visits, j \in DOMAIN visits :
                /\ i < j
                /\ visits[i].by = n /\ visits[j].by = n
                /\ visits[i].c # f.x /\ visits[j].c = f.x
                /\ visits[i].c \notin waitObservers[n]
                /\ f.x \notin waitObservers[n]

\* C27: within a write, before a node n visits a cell from its wait loop no
\* cell of n's wait set has been visited since that notify of n began,
\* except by n's wait loop itself: neither n's main loop nor a cell visited
\* inside it fires an observer deferred at n.
C27_DeferredAfterMainLoop ==
    [][(last'.op = "write" /\ last'.ret = "-")
       => \A w \in DOMAIN visits', j \in DOMAIN visits' :
             (/\ visits'[w].loop = "wait"
              /\ j < w
              /\ visits'[j].at >= PassOf(log', visits'[w])
              /\ visits'[j].c \in waitObservers[visits'[w].by])
                => /\ visits'[j].by = visits'[w].by
                   /\ visits'[j].loop = "wait"
                   /\ PassOf(log', visits'[j]) = PassOf(log', visits'[w])]_vars

\* A cell deferred at the written source and at a cell between them was run
\* from the inner cell's wait loop while the source's main loop was running,
\* and again from the source's wait loop.
C27_FiredInsideMainLoop ==
    /\ last.op = "write" /\ last.ret = "-"
    /\ \E j \in DOMAIN visits, w \in DOMAIN visits :
          /\ j < w
          /\ visits[w].by = last.x /\ visits[w].loop = "wait"
          /\ visits[j].c = visits[w].c
          /\ visits[j].by # last.x /\ visits[j].loop = "wait"
          /\ visits[j].c \in waitObservers[last.x] \cap waitObservers[visits[j].by]
          /\ visits[j].ran /\ visits[w].ran
          /\ Cardinality(Range(m_fun[visits[w].c].reads)) = Len(m_fun[visits[w].c].reads)

\* C29: every visit a re-evaluated computed cell pays in a write carries the
\* hint changed = (the value it computed differs from the one it stored); the
\* visited cell runs its closure if it is an AlwaysTrigger cell, and a
\* ChangedTrigger cell runs it exactly when the hint is true.
C29_HintIsValueChange ==
    [][(last'.op = "write" /\ last'.ret = "-")
       => \A i \in DOMAIN visits' :
             LET v == visits'[i]
                 e == PassOf(log', v)
             IN  (kind[v.by] = "calc" /\ e > 0)
                   => /\ v.changed = (log'[e].old # log'[e].new)
                      /\ policy[v.c] = "AlwaysTrigger" => v.ran
                      /\ policy[v.c] = "ChangedTrigger" => (v.ran = v.changed)]_vars

\* An AlwaysTrigger computed cell was re-evaluated to the value it had, and
\* its ChangedTrigger observer was visited with changed = false and did not
\* run.
C29_UnchangedSkipsChangedTrigger ==
    /\ last.op = "write" /\ last.ret = "-"
    /\ \E i \in DOMAIN visits :
          LET v == visits[i]
              e == PassOf(log, v)
          IN  /\ kind[v.by] = "calc" /\ e > 0
              /\ log[e].old = log[e].new
              /\ policy[v.by] = "AlwaysTrigger"
              /\ policy[v.c] = "ChangedTrigger"
              /\ ~v.changed /\ ~v.ran
              /\ ~RanIn(log, v.c)

\* C30: a write that has returned has made finitely many closure
\* invocations, at most one per visit and each of a cell that the written
\* cell reaches through observer vectors and wait sets, and has left
\* g_wait_list empty.
C30_PulseEndsInsideWrite ==
    (last.op = "write" /\ last.ret = "-")
       => /\ g_wait_list = {}
          /\ Len(log) <= Len(visits)
          /\ \A i \in DOMAIN log :
                log[i].c \in Closure([c \in Cells |-> Range(obList[c]) \cup waitObservers[c]],
                                     {last.x})

\* A write has returned normally and g_wait_list still holds a cell that an
\* earlier write, ended by an exception, had deferred.
C30_StaleDeferredCell ==
    /\ last.op = "write" /\ last.ret = "-"
    /\ g_wait_list # {}
    /\ \A c \in g_wait_list : \A n \in Cells : c \notin waitObservers[n]

\* C31: a write to a source that returns has invoked only closures of cells
\* from which the dependents edges of the time of the write lead to the
\* source.
C31_OnlyDependentsRun ==
    [][(last'.op = "write" /\ last'.ret = "-")
       => \A i \in DOMAIN log' :
             last'.x \in Closure(m_dependents, {log'[i].c})]_vars

\* A write has invoked a cell that no path of dependents edges or of closure
\* reads connects to the written source any more, out of the source's wait
\* set.
C31_RanWithoutPath ==
    /\ last.op = "write" /\ last.ret = "-"
    /\ \E i \in DOMAIN log :
          /\ last.x \notin Closure(m_dependents, {log[i].c})
          /\ last.x \notin Closure([c \in Cells |-> Range(m_fun[c].reads)], {log[i].c})
          /\ log[i].c \in waitObservers[last.x]

C33_CaptureDependentsAreReads ==
    [][/\ (last'.op = "set" /\ last'.style = "capt" /\ last'.ret = "NoErr")
          => Get(m_dependents', last'.x) = Range(last'.ts)
       /\ last'.op = "write"
          => /\ m_dependents' = m_dependents /\ m_observers' = m_observers
             /\ m_repeatDependencies' = m_repeatDependencies
             /\ obList' = obList /\ waitObservers' = waitObservers]_vars

\* A capture-style set has returned NoErr and a cell its closure read is not
\* among the dependents of the cell.
C33_ReadWithoutEdge ==
    /\ last.op = "set" /\ last.style = "capt" /\ last.ret = "NoErr"
    /\ \E t \in Range(last.ts) : t \notin Get(m_dependents, last.x)
    /\ value[last.x] = evaluate(m_fun[last.x], value) \/ kind[last.x] = "action"

\* C34: after a set has returned CycleDepErr the cell has no edge to any
\* proposed target, no proposed target has it as observer in its observers
\* set, its observer vector or its wait set (nothing staged by the cycle check
\* remains), and the dependents, observers and observer vector of every cell
\* other than the cell and its former inputs are as before the call.
C34_RejectedBindInstallsNothing ==
    [][(last'.op = "set" /\ last'.ret = "CycleDepErr")
       => /\ \A t \in Range(last'.ts) :
                /\ t \notin Get(m_dependents', last'.x)
                /\ last'.x \notin Get(m_observers', t)
                /\ last'.x \notin Range(obList'[t])
                /\ last'.x \notin waitObservers'[t]
          /\ \A c \in Cells \ ({last'.x} \cup Get(m_dependents, last'.x)) :
                /\ Get(m_dependents', c) = Get(m_dependents, c)
                /\ Get(m_observers', c) = Get(m_observers, c)
                /\ obList'[c] = obList[c]
                /\ waitObservers'[c] = waitObservers[c]]_vars

\* A set with two arguments was rejected for its second argument after the
\* first had been accepted, and the cell is left without dependents and
\* outside the observer vector of the first argument.
C34_RejectedAfterFirstArgument ==
    /\ last.op = "set" /\ last.ret = "CycleDepErr"
    /\ Len(last.ts) = 2
    /\ last.ts[1] # last.x
    /\ last.x \notin Closure(m_dependents, {last.ts[1]})
    /\ Get(m_dependents, last.x) = {}
    /\ last.x \notin Range(obList[last.ts[1]])


\* C35: a successful rebind X.set(...) recomputes X alone.  It does not notify
\* the observers of X: the only closure invoked is the new closure of X, and
\* the stored value of every other cell that exists after the call, the cells
\* that read X included, is the same as before it.
C35_RebindRecomputesOnlyItself ==
    [][(last'.op = "set" /\ last'.ret = "NoErr")
       => /\ \A i \in DOMAIN log' : log'[i].c = last'.x
          /\ \A c \in alive' \ {last'.x} : value'[c] = value[c]]_vars

\* A computed cell with a computed observer was rebound and has a new value,
\* and the observer still stores the value it computed from the old one.
C35_ObserverKeepsOldValue ==
    /\ last.op = "set" /\ last.ret = "NoErr"
    /\ kind[last.x] = "calc"
    /\ \E o \in alive \ {last.x} :
          /\ kind[o] = "calc"
          /\ last.x \in Get(m_dependents, o)
          /\ last.x \in Range(m_fun[o].reads)
          /\ o \in Range(obList[last.x]) \cup waitObservers[last.x]
          /\ value[o] # evaluate(m_fun[o], value)


\* The number of times the closure f reads the handle of the cell s.
ReadsOf(f, s) == Cardinality({i \in DOMAIN f.reads : f.reads[i] = s})

\* C36: a computed or action cell whose capturing closure read the handle of
\* a source two or more times while it was bound has its closure invoked
\* exactly once by every write to that source that returns.
C36_ReadTwiceRunsOnce ==
    [][(last'.op = "write" /\ last'.ret = "-")
       => \A x \in alive :
            (/\ kind[x] \in {"calc", "action"}
             /\ ReadsOf(m_fun[x], last'.x) >= 2)
               => Cardinality(Runs(log', x)) = 1]_vars

\* A write has invoked twice a computed cell whose closure reads the written
\* source twice and nothing else, and which no other cell reads.
C36_TwoReadsTwoRuns ==
    /\ last.op = "write" /\ last.ret = "-"
    /\ \E x \in alive :
          /\ kind[x] = "calc"
          /\ m_fun[x].reads = <<last.x, last.x>>
          /\ Get(m_dependents, x) = {last.x}
          /\ Get(m_observers, x) = {}
          /\ Cardinality(Runs(log, x)) = 2

====
